---- MODULE Spec2Model ----
(***************************************************************************)
(* Local-first career corpus store (CareerCorpusStore) and its GitHub      *)
(* synchronisation engine (CareerCorpusSync): load / save / set on the     *)
(* local document, and push() through the git data flow                    *)
(* blob -> tree -> commit -> ref update, followed by verification.         *)
(*                                                                         *)
(* push() is a sequential procedure; every call of an injected remote      *)
(* adapter is one step, so that answers of the remote and writes of other  *)
(* clients interleave with it exactly where they can in the program.       *)
(***************************************************************************)
EXTENDS Integers, Sequences, FiniteSets, TLC

VARIABLES
    store,      \* the CareerCorpusStore object and its two files
    remote,     \* the remote repository: branch head and commits
    now,        \* the wall clock read by _utc_now()
    pc,         \* position of the running push(), "idle" when none runs
    px,         \* locals of the running push()
    result,     \* the result dict of the running / last push()
    calls,      \* number of calls made to each remote adapter by this push()
    pushStart,  \* the store as it was when the running push() was entered
    nEdits,     \* edits made so far
    nPushes,    \* push() calls made so far
    nOther,     \* commits published by other writers so far
    sync,       \* the CareerCorpusSync object: retry bound, adapters, patched build
    pullx,      \* the pull() calls made so far and what the last one returned
    stx,        \* the last call of a store method made directly by the caller
    fsx,        \* temp files, the position of a write under way, a reader's view
    boot        \* the turn_state dict shared by bootstrap_memory_repo calls, the last call

vars == <<store, remote, now, pc, px, result, calls, pushStart, nEdits, nPushes, nOther, sync, pullx,
         stx, fsx, boot>>

----------------------------------------------------------------------------
(* Bounds of the model *)

MaxEdits == 1
MaxPushes == 1
MaxClock == 1
MaxOtherWrites == 1
MaxRetriesCfg == 1
MaxPulls == 2
MaxCodecRecords == 2
MaxStoreCalls == 2
MaxBootstraps == 3

(* Optional values: Python None is the empty tuple *)
None == <<>>
Some(x) == <<x>>

----------------------------------------------------------------------------
(* CareerCorpusSync constructor defaults *)

METHOD == "git_blob_utf8_split"

(* CareerCorpusStore constructor defaults *)
validate_on_load == TRUE
validate_on_save == TRUE

----------------------------------------------------------------------------
(* Remote file naming. A path is the sequence of the string pieces it is   *)
(* concatenated from, so that equality and startswith() are decidable.     *)

REMOTE_DIR == "CareerCorpus"
INDEX_FILE == <<REMOTE_DIR, "/", "corpus_index.json">>
PROFILE_FILE == <<REMOTE_DIR, "/", "corpus_profile.json">>
CERTIFICATIONS_FILE == <<REMOTE_DIR, "/", "corpus_certifications.json">>
EDUCATION_FILE == <<REMOTE_DIR, "/", "corpus_education.json">>
METADATA_FILE == <<REMOTE_DIR, "/", "corpus_metadata.json">>
EXPERIENCE_FILE_PREFIX == <<REMOTE_DIR, "/", "corpus_experience_">>
PROJECT_FILE_PREFIX == <<REMOTE_DIR, "/", "corpus_project_">>

ExperiencePath(id) == EXPERIENCE_FILE_PREFIX \o <<id, ".json">>
ProjectPath(id) == PROJECT_FILE_PREFIX \o <<id, ".json">>

(* str.startswith *)
startswith(path, prefix) ==
    /\ Len(path) >= Len(prefix)
    /\ SubSeq(path, 1, Len(prefix)) = prefix

(* Record ids that occur: the ones of the initial document, the ones uuid4 *)
(* generates in this store (u) and the one it generates in another store   *)
(* (o), each list in the lexicographic order of the strings.               *)
ExperienceIds == <<"exp_a", "exp_o1", "exp_u1", "exp_u2", "exp_u3">>
ProjectIds == <<"proj_a", "proj_u1", "proj_u2", "proj_u3">>

(* ID_PREFIXES and uuid4().hex: the k-th identifier generated, per section *)
UuidPool(section) ==
    IF section = "experience" THEN <<"exp_u1", "exp_u2", "exp_u3">>
    ELSE IF section = "projects" THEN <<"proj_u1", "proj_u2", "proj_u3">>
    ELSE IF section = "certifications" THEN <<"cert_u1", "cert_u2", "cert_u3">>
    ELSE <<"edu_u1", "edu_u2", "edu_u3">>
UuidLimit == Len(UuidPool("experience"))

(* the single file older versions kept the whole document in *)
LEGACY_AGGREGATE_FILE == <<"career_corpus.json">>

(* Every path a build can emit, in the order sorted() gives the strings *)
AllPathsSorted ==
    <<CERTIFICATIONS_FILE, EDUCATION_FILE>>
    \o [i \in 1..Len(ExperienceIds) |-> ExperiencePath(ExperienceIds[i])]
    \o <<INDEX_FILE, METADATA_FILE, PROFILE_FILE>>
    \o [i \in 1..Len(ProjectIds) |-> ProjectPath(ProjectIds[i])]
    \o <<LEGACY_AGGREGATE_FILE>>

RECURSIVE SelectPaths(_, _)
SelectPaths(seq, S) ==
    IF seq = <<>> THEN <<>>
    ELSE (IF Head(seq) \in S THEN <<Head(seq)>> ELSE <<>>) \o SelectPaths(Tail(seq), S)

(* sorted(list of paths) *)
sorted(S) == SelectPaths(AllPathsSorted, S)

Range(seq) == {seq[i] : i \in 1..Len(seq)}

----------------------------------------------------------------------------
(* Documents.  profile is one of a few representative contents:            *)
(*   p0, p1     valid, normalised                                          *)
(*   raw        valid, links / notes not yet in normal form (-> p1)        *)
(*   bad        violates the schema                                        *)
(*   notes_bad  valid for the schema, notes hold process text              *)
(*   empty      the empty object, which the schema rejects                 *)
(* List sections hold records [id, v]; id "" is a missing id.              *)

InitialCorpus ==
    [ profile |-> "p0",
      certifications |-> <<[id |-> "cert_a", v |-> 0]>>,
      education |-> <<[id |-> "edu_a", v |-> 0]>>,
      experience |-> <<[id |-> "exp_a", v |-> 0]>>,
      projects |-> <<[id |-> "proj_a", v |-> 0]>>,
      metadata |-> "m0" ]

ListSections == <<"experience", "projects", "certifications", "education">>

(* validate_career_corpus: the schema collaborator *)
validate_career_corpus(doc) == doc.profile \notin {"bad", "empty"}

(* assert_notes_content_only raises iff notes hold process / provenance text *)
assert_notes_content_only(doc) == doc.profile # "notes_bad"

(* _normalize_profile_links and _normalize_notes_fields, together *)
normalize(doc) == [doc EXCEPT !.profile = IF @ = "raw" THEN "p1" ELSE @]

(* json.dumps(sort_keys=True, separators=(",", ":")): the canonical text   *)
canonical_json_text(doc) == [json |-> doc]

(* sha256 over the canonical text, taken as collision free *)
canonical_json_sha256(doc) == [sha256 |-> canonical_json_text(doc)]

_compute_hash(doc) == canonical_json_sha256(doc)

----------------------------------------------------------------------------
(* CareerCorpusStore.  The object is the record                            *)
(*   corpus      _corpus, None before the first load                       *)
(*   dirty       dirty                                                     *)
(*   local_hash  _local_hash                                               *)
(*   meta        _meta                                                     *)
(*   disk        content of the document file (None: no file)              *)
(*   metaDisk    content of the sidecar metadata file (None: no file)      *)
(*   uuids       number of identifiers uuid4 has generated                 *)
(* An operation that can raise yields [s |-> store, raised |-> BOOLEAN].   *)

(* _read_meta: the defaults when no metadata file exists, else the file *)
DefaultMeta ==
    [ remote_file_sha |-> None,
      remote_blob_sha |-> None,
      remote_commit_sha |-> None,
      remote_branch |-> None,
      remote_file_hashes |-> <<>>,
      last_verified_utc |-> None,
      last_push_method |-> None,
      local_hash |-> None,
      last_pull_utc |-> None,
      last_push_utc |-> None ]
_read_meta(metaFile) == IF metaFile = None THEN DefaultMeta ELSE metaFile[1]

(* __init__ over a document file and a metadata file *)
NewStore(file, metaFile) ==
    [ corpus |-> None, dirty |-> FALSE, local_hash |-> None, meta |-> _read_meta(metaFile),
      disk |-> file, metaDisk |-> metaFile, uuids |-> 0 ]

is_loaded(s) == s.corpus # None

(* _write_meta: atomic rewrite of the sidecar file from _meta *)
_write_meta(s) == [s EXCEPT !.metaDisk = Some(s.meta)]

(* validate(): TRUE iff it does not raise *)
validate_skipped(s) == TRUE
validate(s) == validate_career_corpus(s.corpus[1])

(* _ensure_item_id over one list: records without id get the next uuid.   *)
(* The value is [recs, k]: the list, and the uuids generated so far.       *)
IdsDone(r, rest) == [recs |-> <<r>> \o rest.recs, k |-> rest.k]

RECURSIVE EnsureIdsInList(_, _, _)
EnsureIdsInList(recs, section, k) ==
    IF recs = <<>> THEN [recs |-> <<>>, k |-> k]
    ELSE IF Head(recs).id = ""
    THEN IdsDone([Head(recs) EXCEPT !.id = UuidPool(section)[k + 1]],
                 EnsureIdsInList(Tail(recs), section, k + 1))
    ELSE IdsDone(Head(recs), EnsureIdsInList(Tail(recs), section, k))

(* _ensure_ids_for_known_lists: [doc, k], the lists taken in the order of *)
(* ListSections                                                            *)
RECURSIVE EnsureIdsInSections(_, _, _)
EnsureIdsStep(doc, section, rest, e) ==
    EnsureIdsInSections([doc EXCEPT ![section] = e.recs], e.k, rest)
EnsureIdsInSections(doc, k, sections) ==
    IF sections = <<>> THEN [doc |-> doc, k |-> k]
    ELSE EnsureIdsStep(doc, Head(sections), Tail(sections),
                       EnsureIdsInList(doc[Head(sections)], Head(sections), k))
_ensure_ids_for_known_lists(doc, k) == EnsureIdsInSections(doc, k, ListSections)

(* load(): the file is read into _corpus before anything can raise.       *)
(* normalized tells whether normalisation changed the document read, ids  *)
(* is the outcome of _ensure_ids_for_known_lists on the normalised one.    *)
load_checked_ids_only(s, normalized, ids) ==
    IF validate_on_load /\ ~validate([s EXCEPT !.corpus = Some(ids.doc)])
    THEN [s |-> [s EXCEPT !.corpus = Some(ids.doc), !.uuids = ids.k], raised |-> TRUE]
    ELSE [ s |-> _write_meta([s EXCEPT !.corpus = Some(ids.doc), !.uuids = ids.k,
                                       !.local_hash = Some(_compute_hash(ids.doc)),
                                       !.meta.local_hash = Some(_compute_hash(ids.doc)),
                                       !.dirty = (ids.k # s.uuids)]),
           raised |-> FALSE ]
load_checked(s, normalized, ids) ==
    IF validate_on_load /\ ~validate([s EXCEPT !.corpus = Some(ids.doc)])
    THEN [s |-> [s EXCEPT !.corpus = Some(ids.doc), !.uuids = ids.k], raised |-> TRUE]
    ELSE [ s |-> _write_meta([s EXCEPT !.corpus = Some(ids.doc), !.uuids = ids.k,
                                       !.local_hash = Some(_compute_hash(ids.doc)),
                                       !.meta.local_hash = Some(_compute_hash(ids.doc)),
                                       !.dirty = normalized \/ ids.k # s.uuids]),
           raised |-> FALSE ]
load_always_dirty(s) ==
    load_checked(s, TRUE, _ensure_ids_for_known_lists(normalize(s.disk[1]), s.uuids))
load(s) ==
    load_checked(s, normalize(s.disk[1]) # s.disk[1],
                 _ensure_ids_for_known_lists(normalize(s.disk[1]), s.uuids))

(* save(), on a loaded store; doc is the normalised document *)
save_checked(s, doc) ==
    IF validate_on_save /\ ~validate([s EXCEPT !.corpus = Some(doc)])
    THEN [s |-> [s EXCEPT !.corpus = Some(doc)], raised |-> TRUE]
    ELSE [ s |-> _write_meta([s EXCEPT !.corpus = Some(doc), !.disk = Some(doc),
                                       !.local_hash = Some(_compute_hash(doc)),
                                       !.meta.local_hash = Some(_compute_hash(doc)),
                                       !.dirty = FALSE]),
           raised |-> FALSE ]
save_skipped(s) == [s |-> s, raised |-> FALSE]
save_unconditional(s) == save_checked(s, normalize(s.corpus[1]))
save(s) ==
    IF ~s.dirty THEN [s |-> s, raised |-> FALSE]
    ELSE save_checked(s, normalize(s.corpus[1]))

(* _mark_dirty *)
_mark_dirty(s) ==
    [s EXCEPT !.dirty = TRUE, !.local_hash = Some(_compute_hash(s.corpus[1])),
              !.meta.local_hash = Some(_compute_hash(s.corpus[1]))]

(* status() *)
status(s) ==
    [ dirty |-> s.dirty,
      local_hash |-> s.local_hash,
      remote_file_sha |-> s.meta.remote_file_sha,
      remote_blob_sha |-> s.meta.remote_blob_sha,
      remote_commit_sha |-> s.meta.remote_commit_sha,
      remote_branch |-> s.meta.remote_branch,
      remote_file_hashes |-> s.meta.remote_file_hashes,
      last_pull_utc |-> s.meta.last_pull_utc,
      last_push_utc |-> s.meta.last_push_utc,
      last_verified_utc |-> s.meta.last_verified_utc,
      last_push_method |-> s.meta.last_push_method ]

(* mark_push_success with verified=True; t is the clock reading.  An     *)
(* argument that is None leaves its field alone.                          *)
mark_push_success(s, remote_file_sha, remote_blob_sha, remote_commit_sha, remote_branch, remote_file_hashes, method, t) ==
    _write_meta([s EXCEPT
        !.meta.remote_file_sha = IF remote_file_sha # None THEN remote_file_sha ELSE @,
        !.meta.remote_blob_sha = IF remote_blob_sha # None THEN remote_blob_sha ELSE @,
        !.meta.remote_commit_sha = IF remote_commit_sha # None THEN remote_commit_sha ELSE @,
        !.meta.remote_branch = IF remote_branch # None THEN remote_branch ELSE @,
        !.meta.remote_file_hashes = remote_file_hashes,
        !.meta.last_push_utc = Some(t),
        !.meta.last_push_method = Some(method),
        !.meta.last_verified_utc = Some(t)])

(* build_split_documents(): path -> section document, and the manifest.  *)
(* Two records with one id share a path; the later one is the one kept.   *)
LastWithId(items, id) ==
    items[CHOOSE j \in 1..Len(items) :
             /\ items[j].id = id
             /\ \A l \in (j + 1)..Len(items) : items[l].id # id]

ExperiencePaths(doc) == {ExperiencePath(doc.experience[i].id) : i \in 1..Len(doc.experience)}
ProjectPaths(doc) == {ProjectPath(doc.projects[i].id) : i \in 1..Len(doc.projects)}

SectionDocument(doc, p) ==
    IF p = PROFILE_FILE THEN [profile |-> doc.profile]
    ELSE IF p = CERTIFICATIONS_FILE THEN [certifications |-> doc.certifications]
    ELSE IF p = EDUCATION_FILE THEN [education |-> doc.education]
    ELSE IF p = METADATA_FILE THEN [metadata |-> doc.metadata]
    ELSE IF startswith(p, EXPERIENCE_FILE_PREFIX)
    THEN [experience |-> LastWithId(doc.experience, p[4])]
    ELSE [project |-> LastWithId(doc.projects, p[4])]

SectionDocuments(doc) ==
    [p \in {PROFILE_FILE, CERTIFICATIONS_FILE, EDUCATION_FILE, METADATA_FILE}
            \cup ExperiencePaths(doc) \cup ProjectPaths(doc) |-> SectionDocument(doc, p)]

index_doc(doc, sections, t) ==
    [ format_version |-> "1.0.0",
      generated_at_utc |-> t,
      core_files |-> [ profile |-> PROFILE_FILE, certifications |-> CERTIFICATIONS_FILE,
                       education |-> EDUCATION_FILE, metadata |-> METADATA_FILE ],
      experience_files |->
          [i \in 1..Len(doc.experience) |->
              [id |-> doc.experience[i].id, path |-> ExperiencePath(doc.experience[i].id)]],
      project_files |->
          [i \in 1..Len(doc.projects) |->
              [id |-> doc.projects[i].id, path |-> ProjectPath(doc.projects[i].id)]],
      file_hashes |-> [p \in DOMAIN sections |-> canonical_json_sha256(sections[p])] ]

WithIndex(doc, sections, t) ==
    [p \in DOMAIN sections \cup {INDEX_FILE} |->
        IF p = INDEX_FILE THEN index_doc(doc, sections, t) ELSE sections[p]]

build_split_documents(doc, t) == WithIndex(doc, SectionDocuments(doc), t)

(* index_referenced_paths: the core files in the order profile, skills,    *)
(* certifications, education, metadata, then the experience and the        *)
(* project files in the order of the manifest                              *)
CoreFileKeys == <<"profile", "skills", "certifications", "education", "metadata">>
RECURSIVE CorePaths(_, _)
CorePaths(core_files, keys) ==
    IF keys = <<>> THEN <<>>
    ELSE (IF Head(keys) \in DOMAIN core_files THEN <<core_files[Head(keys)]>> ELSE <<>>)
         \o CorePaths(core_files, Tail(keys))
IndexMember(manifest, key) == IF key \in DOMAIN manifest THEN manifest[key] ELSE <<>>
ListedPaths(files) == [i \in 1..Len(files) |-> files[i].path]
index_referenced_paths(manifest) ==
    CorePaths(IndexMember(manifest, "core_files"), CoreFileKeys)
    \o ListedPaths(IndexMember(manifest, "experience_files"))
    \o ListedPaths(IndexMember(manifest, "project_files"))

(* assemble_from_split_documents: [raised, corpus].  It raises when a      *)
(* required core file or a listed record file is not among the documents,  *)
(* or a record file has not the shape of one; a core document without its  *)
(* member yields the empty default.                                        *)
RequiredCoreKeys == {"profile", "certifications", "education", "metadata"}
AssembleRaises(core_files, experience_files, project_files, documents_by_path) ==
    \/ \E key \in RequiredCoreKeys :
          key \notin DOMAIN core_files \/ core_files[key] \notin DOMAIN documents_by_path
    \/ \E i \in 1..Len(experience_files) :
          \/ experience_files[i].path \notin DOMAIN documents_by_path
          \/ "experience" \notin DOMAIN documents_by_path[experience_files[i].path]
    \/ \E i \in 1..Len(project_files) :
          \/ project_files[i].path \notin DOMAIN documents_by_path
          \/ "project" \notin DOMAIN documents_by_path[project_files[i].path]
MemberOr(doc, key, default) == IF key \in DOMAIN doc THEN doc[key] ELSE default
Assembled(core_files, experience_files, project_files, documents_by_path) ==
    [ profile |-> MemberOr(documents_by_path[core_files.profile], "profile", "empty"),
      certifications |-> MemberOr(documents_by_path[core_files.certifications], "certifications", <<>>),
      education |-> MemberOr(documents_by_path[core_files.education], "education", <<>>),
      experience |-> [i \in 1..Len(experience_files) |->
                         documents_by_path[experience_files[i].path].experience],
      projects |-> [i \in 1..Len(project_files) |->
                       documents_by_path[project_files[i].path].project],
      metadata |-> MemberOr(documents_by_path[core_files.metadata], "metadata", "empty") ]
AssembleParts(core_files, experience_files, project_files, documents_by_path) ==
    IF AssembleRaises(core_files, experience_files, project_files, documents_by_path)
    THEN [raised |-> TRUE, corpus |-> None]
    ELSE [raised |-> FALSE,
          corpus |-> Some(Assembled(core_files, experience_files, project_files, documents_by_path))]
assemble_from_split_documents(manifest, documents_by_path) ==
    AssembleParts(IndexMember(manifest, "core_files"), IndexMember(manifest, "experience_files"),
                  IndexMember(manifest, "project_files"), documents_by_path)

(* replace_corpus(corpus, remote_file_sha, remote_branch,                  *)
(* remote_file_hashes, validate); t is the clock reading.  An argument     *)
(* that is None leaves its field alone.                                    *)
replace_checked(s, corpus, ids, remote_file_sha, remote_branch, remote_file_hashes, validate_arg, t) ==
    IF validate_arg /\ ~validate([s EXCEPT !.corpus = Some(ids.doc)])
    THEN [s |-> [s EXCEPT !.corpus = Some(ids.doc), !.uuids = ids.k], raised |-> TRUE]
    ELSE [ s |-> _write_meta([s EXCEPT
                     !.corpus = Some(ids.doc), !.uuids = ids.k, !.disk = Some(ids.doc),
                     !.local_hash = Some(_compute_hash(ids.doc)),
                     !.meta.local_hash = Some(_compute_hash(ids.doc)),
                     !.meta.remote_file_sha = IF remote_file_sha # None THEN remote_file_sha ELSE @,
                     !.meta.remote_branch = IF remote_branch # None THEN remote_branch ELSE @,
                     !.meta.remote_file_hashes =
                         IF remote_file_hashes # None THEN remote_file_hashes[1] ELSE @,
                     !.meta.last_pull_utc = Some(t),
                     !.dirty = (ids.k # s.uuids \/ normalize(corpus) # corpus)]),
           raised |-> FALSE ]
replace_corpus_unless_dirty(s, corpus, remote_file_sha, remote_branch, remote_file_hashes, validate_arg, t) ==
    IF s.dirty THEN [s |-> s, raised |-> FALSE]
    ELSE replace_checked(s, corpus, _ensure_ids_for_known_lists(normalize(corpus), s.uuids),
                         remote_file_sha, remote_branch, remote_file_hashes, validate_arg, t)
replace_corpus_pointer_kept(s, corpus, remote_file_sha, remote_branch, remote_file_hashes, validate_arg, t) ==
    replace_checked(s, corpus, _ensure_ids_for_known_lists(normalize(corpus), s.uuids),
                    None, remote_branch, remote_file_hashes, validate_arg, t)
replace_corpus(s, corpus, remote_file_sha, remote_branch, remote_file_hashes, validate_arg, t) ==
    replace_checked(s, corpus, _ensure_ids_for_known_lists(normalize(corpus), s.uuids),
                    remote_file_sha, remote_branch, remote_file_hashes, validate_arg, t)

----------------------------------------------------------------------------
(* The memory_validation guards used by push() *)

(* One entry of the approval map: absent, a bool, or an object *)
ApprovalValues == {"absent", "true", "false", "obj_approved", "obj_not_approved"}

(* assert_sections_explicitly_approved: TRUE iff it does not raise *)
assert_sections_any_approved(approved_sections, target_sections) ==
    \E x \in target_sections :
        x \in DOMAIN approved_sections /\ approved_sections[x] \in {"true", "obj_approved"}
assert_sections_explicitly_approved(approved_sections, target_sections) ==
    LET is_approved(section) ==
            IF section \notin DOMAIN approved_sections THEN FALSE
            ELSE approved_sections[section] \in {"true", "obj_approved"}
        missing == {x \in target_sections : ~is_approved(x)}
    IN  target_sections # {} /\ missing = {}

(* assert_validation_claim_allowed: TRUE iff it does not raise *)
assert_validation_claim_allowed(validated_ran, validation_ok) == validated_ran /\ validation_ok

(* assert_persist_claim_allowed: TRUE iff it does not raise *)
assert_persist_claim_allowed(push_ok, verify_ok) == push_ok /\ verify_ok

----------------------------------------------------------------------------
(* CareerCorpusSync helpers.  A string field that is None in Python holds  *)
(* the string "None".                                                      *)

_base_result ==
    [ ok |-> FALSE, pushed |-> FALSE, persisted |-> FALSE, retry_count |-> 0,
      remote_blob_sha |-> None, remote_commit_sha |-> None, remote_branch |-> None,
      verification |-> [ok |-> FALSE, error |-> "not_run"],
      reason |-> "None", error_code |-> "None",
      validated |-> FALSE, validation_ran |-> FALSE, local_saved |-> FALSE,
      remote_written |-> FALSE, verify_ok |-> FALSE, status_changed |-> FALSE ]

_status_snapshot(st) ==
    [ dirty |-> st.dirty,
      local_hash |-> st.local_hash,
      remote_file_sha |-> st.remote_file_sha,
      remote_blob_sha |-> st.remote_blob_sha,
      remote_commit_sha |-> st.remote_commit_sha,
      remote_branch |-> st.remote_branch,
      last_push_utc |-> st.last_push_utc,
      last_verified_utc |-> st.last_verified_utc,
      last_push_method |-> st.last_push_method ]

_finalize_push_result(res, before, s) ==
    [res EXCEPT !.status_changed = (_status_snapshot(status(before)) # _status_snapshot(status(s)))]

_allowed_paths_for_sections(target_sections) ==
    {INDEX_FILE}
    \cup (IF "profile" \in target_sections THEN {<<"corpus_profile.json">>} ELSE {})
    \cup (IF "skills" \in target_sections THEN {<<"corpus_skills.json">>} ELSE {})
    \cup (IF "certifications" \in target_sections THEN {<<"corpus_certifications.json">>} ELSE {})
    \cup (IF "education" \in target_sections THEN {<<"corpus_education.json">>} ELSE {})
    \cup (IF "metadata" \in target_sections THEN {<<"corpus_metadata.json">>} ELSE {})

_path_prefix_allowed(path, target_sections) ==
    \/ "experience" \in target_sections /\ startswith(path, <<"corpus_experience_">>)
    \/ "projects" \in target_sections /\ startswith(path, <<"corpus_project_">>)

_disallowed_changed_only(changed_paths, deleted_paths, target_sections) ==
    {path \in Range(changed_paths) :
        path \notin _allowed_paths_for_sections(target_sections)
        /\ ~_path_prefix_allowed(path, target_sections)}
_disallowed_changed_paths(changed_paths, deleted_paths, target_sections) ==
    LET allowed == _allowed_paths_for_sections(target_sections)
    IN  {path \in Range(changed_paths \o deleted_paths) :
            path \notin allowed /\ ~_path_prefix_allowed(path, target_sections)}

(* git object names: a blob is named by its content, a tree by its entries *)
git_blob_sha(text) == [blob |-> text]
TamperedBlob == git_blob_sha(canonical_json_text([tampered |-> TRUE]))

(* _verify_push_result once the tree of the new commit has been read *)
_verify_push_result_changed_only(path_to_blob, expected_blob_shas, changed_paths, deleted_paths) ==
    LET badChanged == {i \in 1..Len(changed_paths) :
                          \/ changed_paths[i] \notin DOMAIN path_to_blob
                          \/ path_to_blob[changed_paths[i]] # expected_blob_shas[changed_paths[i]]}
    IN  IF badChanged # {}
        THEN [ok |-> FALSE, error |-> "blob_sha_mismatch", remote_index_sha |-> None]
        ELSE [ ok |-> TRUE, error |-> "None",
               remote_index_sha |-> IF INDEX_FILE \in DOMAIN path_to_blob
                                    THEN Some(path_to_blob[INDEX_FILE]) ELSE None ]
_verify_push_result(path_to_blob, expected_blob_shas, changed_paths, deleted_paths) ==
    LET badDeleted == {i \in 1..Len(deleted_paths) : deleted_paths[i] \in DOMAIN path_to_blob}
        badChanged == {i \in 1..Len(changed_paths) :
                          \/ changed_paths[i] \notin DOMAIN path_to_blob
                          \/ path_to_blob[changed_paths[i]] # expected_blob_shas[changed_paths[i]]}
        firstBad == CHOOSE i \in badChanged : \A j \in badChanged : i <= j
    IN  IF badDeleted # {}
        THEN [ok |-> FALSE, error |-> "deleted_path_still_present", remote_index_sha |-> None]
        ELSE IF badChanged # {}
        THEN [ ok |-> FALSE,
               error |-> IF changed_paths[firstBad] \notin DOMAIN path_to_blob
                         THEN "changed_path_missing" ELSE "blob_sha_mismatch",
               remote_index_sha |-> None ]
        ELSE [ ok |-> TRUE, error |-> "None",
               remote_index_sha |-> IF INDEX_FILE \in DOMAIN path_to_blob
                                    THEN Some(path_to_blob[INDEX_FILE]) ELSE None ]

----------------------------------------------------------------------------
(* Local operations of the store *)

_ensure_loaded(s) == IF is_loaded(s) THEN [s |-> s, raised |-> FALSE] ELSE load(s)

ProfileValues == {"p0", "raw", "bad", "notes_bad"}

(* set(path, value) for the paths ["profile"] (index 0) and                *)
(* [section, index - 1, "v"] of a list section                             *)
set(s, path, value) ==
    LET doc == s.corpus[1]
        doc2 == IF path.section = "profile" THEN [doc EXCEPT !.profile = value]
                ELSE [doc EXCEPT ![path.section][path.index].v = value]
    IN  _mark_dirty([s EXCEPT !.corpus = Some(doc2)])

(* append_experience(obj) for an obj without id *)
append_experience(s, v) ==
    LET doc == s.corpus[1]
        item == [id |-> UuidPool("experience")[s.uuids + 1], v |-> v]
    IN  _mark_dirty([s EXCEPT !.corpus = Some([doc EXCEPT !.experience = Append(@, item)]),
                              !.uuids = @ + 1])

(* _find_by_match(items, id): index of the first record with that id, or 0 *)
_find_by_match(items, id) ==
    LET hits == {i \in 1..Len(items) : items[i].id = id}
    IN  IF hits = {} THEN 0 ELSE CHOOSE i \in hits : \A j \in hits : i <= j

(* delete_experience(key) for a string key *)
delete_experience(s, id) ==
    LET doc == s.corpus[1]
        idx == _find_by_match(doc.experience, id)
        rest == SubSeq(doc.experience, 1, idx - 1) \o SubSeq(doc.experience, idx + 1, Len(doc.experience))
    IN  IF idx = 0 THEN s
        ELSE _mark_dirty([s EXCEPT !.corpus = Some([doc EXCEPT !.experience = rest])])

----------------------------------------------------------------------------
(* The remote repository, as the git data API keeps it.  Objects are named *)
(* by their content: a blob by its text, a tree by its entries, a commit   *)
(* by its tree and parents; the branch head names a commit.                *)

RootCommit == [tree |-> <<>>, parents |-> <<>>]
git_commit_sha(tree, parent) == [tree |-> tree, parents |-> <<parent>>]

(* The state a verified push of InitialCorpus at time 0 left behind, in    *)
(* an earlier session: the metadata file and the remote branch             *)
SyncedDocs == build_split_documents(InitialCorpus, 0)
SyncedTree == [p \in DOMAIN SyncedDocs |-> git_blob_sha(canonical_json_text(SyncedDocs[p]))]
SyncedCommit == git_commit_sha(SyncedTree, RootCommit)
SyncedMeta ==
    [ remote_file_sha |-> Some(SyncedTree[INDEX_FILE]),
      remote_blob_sha |-> Some(SyncedTree[INDEX_FILE]),
      remote_commit_sha |-> Some(SyncedCommit),
      remote_branch |-> Some("main"),
      remote_file_hashes |-> [p \in DOMAIN SyncedDocs |-> canonical_json_sha256(SyncedDocs[p])],
      last_verified_utc |-> Some(0),
      last_push_method |-> Some(METHOD),
      local_hash |-> Some(_compute_hash(InitialCorpus)),
      last_pull_utc |-> None,
      last_push_utc |-> Some(0) ]

DEFAULT_BRANCH == "main"
Adapters ==
    { "get_memory_repo", "get_branch_ref", "get_git_commit", "get_git_tree", "get_git_blob",
      "create_git_blob", "create_git_tree", "create_git_commit", "update_branch_ref" }
ReadAdapters == {"get_memory_repo", "get_branch_ref", "get_git_commit", "get_git_tree", "get_git_blob"}
WriteAdapters == Adapters \ ReadAdapters

NoCalls == [a \in Adapters |-> 0]
Called(a) == [calls EXCEPT ![a] = @ + 1]
TotalCalls(S) ==
    LET RECURSIVE Sum(_)
        Sum(T) == IF T = {} THEN 0 ELSE LET a == CHOOSE x \in T : TRUE IN calls[a] + Sum(T \ {a})
    IN  Sum(S)

PxIdle ==
    [ target_sections |-> {}, approved_sections |-> <<>>, docs |-> <<>>, local_hashes |-> <<>>,
      changed_paths |-> <<>>, deleted_paths |-> <<>>, attempt |-> 0, attempt_results |-> <<>>,
      parent_commit_sha |-> RootCommit, base_tree_sha |-> <<>>, blob_shas |-> <<>>,
      new_tree_sha |-> <<>>, new_commit_sha |-> RootCommit, verify_tree_sha |-> <<>>,
      verification |-> [ok |-> FALSE, error |-> "not_run", remote_index_sha |-> None] ]

IdleStore == NewStore(Some(InitialCorpus), Some(SyncedMeta))

(* a document file written before links and notes were kept in normal form *)
LegacyCorpus == [InitialCorpus EXCEPT !.profile = "raw"]

(* no store method was called yet.  n counts the calls; of the last one:   *)
(* op its name, before and after the store as it met and left it, raised   *)
(* whether it raised, arg its arguments, ret what it returned; prev is the *)
(* name of the call before it.                                             *)
StxIdle ==
    [ n |-> 0, op |-> "none", prev |-> "none", before |-> IdleStore, after |-> IdleStore, raised |-> FALSE,
      arg |-> <<>>, ret |-> <<>> ]

(* The files of the store directory are "doc" (path), "meta" (meta_path)   *)
(* and the temp file of each.  The document file and the metadata file     *)
(* are store.disk and store.metaDisk; fsx holds the temp files and the     *)
(* position of the write under way:                                        *)
(*   wpc      position in _atomic_write_json: idle, opened, dumped, synced *)
(*   path     the file being written, payload what is written to it        *)
(*   next     what the caller does after the write                         *)
(*   op       the method that writes or wrote last, returned whether it    *)
(*            has returned, raised whether it raised, before the store as  *)
(*            the method met it                                            *)
(*   tmp      the temp files, news what the method has written to a file   *)
(*   seen     what another process read last                               *)
DOC_TMP == ".doc.tmp"
META_TMP == ".meta.tmp"
FsxIdle ==
    [ wpc |-> "idle", path |-> "doc", payload |-> None, next |-> "return",
      op |-> "none", returned |-> FALSE, raised |-> FALSE, before |-> IdleStore,
      tmp |-> [name \in {DOC_TMP, META_TMP} |-> None],
      news |-> [name \in {"doc", "meta"} |-> None],
      seen |-> <<>> ]

(* pull(): the result dict, the calls it made, and what it left behind.    *)
(* A member the dict does not carry is "None" / None.                      *)
PullResult(ok, changed, reason, error_code, remote_file_sha, dirty) ==
    [ ok |-> ok, changed |-> changed, reason |-> reason, error_code |-> error_code,
      remote_file_sha |-> remote_file_sha, dirty |-> dirty ]
NoPullResult == PullResult(FALSE, FALSE, "None", "None", None, None)
PullCalls(repo, ref, commit, tree, blob) ==
    [a \in Adapters |->
        IF a = "get_memory_repo" THEN repo
        ELSE IF a = "get_branch_ref" THEN ref
        ELSE IF a = "get_git_commit" THEN commit
        ELSE IF a = "get_git_tree" THEN tree
        ELSE IF a = "get_git_blob" THEN blob
        ELSE 0]
PullOut(s, raised, res, c) == [s |-> s, raised |-> raised, result |-> res, calls |-> c]
PullFailedStoreReset(s, reason, error_code, c) ==
    PullOut([s EXCEPT !.corpus = None, !.dirty = FALSE], FALSE,
            PullResult(FALSE, FALSE, reason, error_code, None, None), c)
PullFailed(s, reason, error_code, c) ==
    PullOut(s, FALSE, PullResult(FALSE, FALSE, reason, error_code, None, None), c)

(* no pull() was made yet.  n counts the calls; of the last one: force its *)
(* argument, before and after the store as it met and left it, raised      *)
(* whether it raised, result what it returned, calls the calls it made,    *)
(* tree the tree of the branch head it read.                               *)
(* bootstrap_memory_repo.  What an adapter returns: something that is not  *)
(* a dict, a dict without status_code, a dict whose status_code is not an  *)
(* int (the digits as a string), or a dict with an int status_code.        *)
Response(is_dict, status_code, is_int) ==
    [is_dict |-> is_dict, status_code |-> status_code, is_int |-> is_int]
StatusCodes == {0, 201, 404, 422}
Responses ==
    {Response(FALSE, None, FALSE), Response(TRUE, None, FALSE), Response(TRUE, Some(404), FALSE)}
        \cup {Response(TRUE, Some(c), TRUE) : c \in StatusCodes}

(* _status_code(response): the int status_code of a dict, else None *)
_status_code(response) ==
    IF ~response.is_dict THEN None
    ELSE IF response.status_code = None \/ ~response.is_int THEN None
    ELSE response.status_code

(* "if create_status and create_status >= 400" *)
CreateRejected(create_status) ==
    create_status # None /\ create_status[1] # 0 /\ create_status[1] >= 400

(* turn_state is None or a dict; of a dict, the value of                   *)
(* repo_create_attempted_this_turn, FALSE when the key is missing          *)
CreateAttempted(turn_state) == turn_state # None /\ turn_state[1]
MarkCreateAttemptedNever(turn_state) == turn_state
MarkCreateAttempted(turn_state) == IF turn_state # None THEN Some(TRUE) ELSE turn_state

(* the dict bootstrap_memory_repo returns; a key it does not set is absent *)
Absent == [absent |-> TRUE]
NoBootResult ==
    [ ok |-> FALSE, repo_exists |-> FALSE, created |-> FALSE, sequence |-> <<>>,
      error_code |-> Absent, reason |-> "", repo_create_attempted_this_turn |-> FALSE ]
BootOut(raised, ret, turn_state, made) ==
    [raised |-> raised, ret |-> ret, turn_state |-> turn_state, made |-> made]

(* bootstrap_memory_repo(get_memory_repo, create_memory_repo, turn_state); *)
(* first, create_response and confirmed are what the adapters answer when  *)
(* they are called, made the calls made                                    *)
bootstrap_memory_repo(first, create_response, confirmed, turn_state) ==
    IF _status_code(first) # Some(404)
    THEN BootOut(FALSE,
                 [ ok |-> TRUE, repo_exists |-> TRUE, created |-> FALSE, sequence |-> <<"get">>,
                   error_code |-> Absent, reason |-> "",
                   repo_create_attempted_this_turn |-> CreateAttempted(turn_state) ],
                 turn_state, <<"get">>)
    ELSE IF CreateAttempted(turn_state)
    THEN BootOut(TRUE, NoBootResult, turn_state, <<"get">>)
    ELSE IF CreateRejected(_status_code(create_response))
    THEN BootOut(FALSE,
                 [ ok |-> FALSE, repo_exists |-> FALSE, created |-> FALSE,
                   sequence |-> <<"get", "create">>,
                   error_code |-> [api |-> _status_code(create_response)[1]],
                   reason |-> "create_failed", repo_create_attempted_this_turn |-> TRUE ],
                 MarkCreateAttempted(turn_state), <<"get", "create">>)
    ELSE LET repo_exists == _status_code(confirmed) # Some(404)
         IN  BootOut(FALSE,
                     [ ok |-> repo_exists, repo_exists |-> repo_exists, created |-> TRUE,
                       sequence |-> <<"get", "create", "get_confirm">>,
                       error_code |-> IF repo_exists THEN [none |-> TRUE] ELSE [api |-> 404],
                       reason |-> IF repo_exists THEN "confirmed" ELSE "confirm_failed",
                       repo_create_attempted_this_turn |-> TRUE ],
                     MarkCreateAttempted(turn_state), <<"get", "create", "get">>)

(* no bootstrap call was made yet.  turn_state is the dict the caller      *)
(* keeps for the turn; of the last call: whether it was given that dict,   *)
(* the dict as the call met it, the answers it received, what it returned; *)
(* creates counts the create_memory_repo calls of the calls given the dict *)
NoResponse == Response(FALSE, None, FALSE)
BootIdle ==
    [ n |-> 0, turn_state |-> Some(FALSE), creates |-> 0, shared |-> FALSE, met |-> None,
      first |-> NoResponse, create_response |-> NoResponse, confirmed |-> NoResponse,
      raised |-> FALSE, ret |-> NoBootResult, made |-> <<>> ]

PullIdle ==
    [ n |-> 0, force |-> FALSE, before |-> IdleStore, after |-> IdleStore, raised |-> FALSE,
      result |-> NoPullResult, calls |-> NoCalls, tree |-> <<>> ]
Init ==
    /\ store \in {NewStore(Some(file), Some(SyncedMeta)) : file \in {InitialCorpus, LegacyCorpus}}
    /\ remote = [head |-> SyncedCommit]
    /\ now = 0
    /\ pc = "idle"
    /\ px = PxIdle
    /\ result = _base_result
    /\ calls = NoCalls
    /\ pushStart = IdleStore
    /\ nEdits = 0
    /\ nPushes = 0
    /\ nOther = 0
    /\ sync \in {[max_retries |-> m, adapters |-> a, patched_build |-> FALSE] :
                    m \in 0..MaxRetriesCfg, a \in BOOLEAN}
    /\ pullx = PullIdle
    /\ stx = StxIdle
    /\ fsx = FsxIdle
    /\ boot = BootIdle

pushVars == <<pc, px, result, calls, pushStart, nPushes>>
envVars == <<remote, now, nOther, sync, pullx, stx, fsx, boot>>

(* store.load() *)
Load ==
    /\ pc = "idle"
    /\ store.disk # None
    /\ store' = load(store).s
    /\ UNCHANGED <<pushVars, envVars, nEdits>>

(* store.save() *)
Save ==
    /\ pc = "idle"
    /\ LET l == _ensure_loaded(store)
       IN  store' = IF l.raised THEN l.s ELSE save(l.s).s
    /\ UNCHANGED <<pushVars, envVars, nEdits>>

(* store.set(path, value) *)
Set ==
    /\ pc = "idle"
    /\ nEdits < MaxEdits
    /\ LET l == _ensure_loaded(store)
       IN  \/ \E value \in ProfileValues :
                store' = IF l.raised THEN l.s
                         ELSE set(l.s, [section |-> "profile", index |-> 0], value)
           \/ \E value \in {1} :
                /\ ~l.raised
                /\ store' = set(l.s, [section |-> "education", index |-> 1], value)
    /\ nEdits' = nEdits + 1
    /\ UNCHANGED <<pushVars, envVars>>

(* store.append_experience(obj) *)
AppendExperience ==
    /\ pc = "idle"
    /\ nEdits < MaxEdits
    /\ LET l == _ensure_loaded(store)
       IN  /\ l.s.uuids < UuidLimit
           /\ store' = IF l.raised THEN l.s ELSE append_experience(l.s, 0)
    /\ nEdits' = nEdits + 1
    /\ UNCHANGED <<pushVars, envVars>>

(* store.delete_experience(key) *)
DeleteExperience ==
    /\ pc = "idle"
    /\ nEdits < MaxEdits
    /\ LET l == _ensure_loaded(store)
       IN  \E id \in {"exp_a", "exp_u1"} :
               store' = IF l.raised THEN l.s ELSE delete_experience(l.s, id)
    /\ nEdits' = nEdits + 1
    /\ UNCHANGED <<pushVars, envVars>>

InFlight == pc \notin {"idle", "returned", "raised"}

(* Another client publishes a commit on top of the current head.  push()  *)
(* observes the head only when get_branch_ref reads it and when            *)
(* update_branch_ref compares it, so a foreign write at any other time is  *)
(* seen exactly like one made just before the next of these two calls.     *)
OtherWriter ==
    /\ pc \in {"get_branch_ref", "update_branch_ref"}
    /\ nOther < MaxOtherWrites
    /\ LET base == remote.head.tree
           blob == git_blob_sha(canonical_json_text([metadata |-> "other"]))
           tree == [p \in DOMAIN base \cup {METADATA_FILE} |->
                       IF p = METADATA_FILE THEN blob ELSE base[p]]
       IN  remote' = [remote EXCEPT !.head = git_commit_sha(tree, remote.head)]
    /\ nOther' = nOther + 1
    /\ UNCHANGED <<store, now, pc, px, result, calls, pushStart, nEdits, nPushes, sync, boot, pullx, stx, fsx>>

----------------------------------------------------------------------------
(* push().  PushBegin is the part of push() that runs before the first     *)
(* remote call: load, approval gate, dirty check, adapter check,           *)
(* validation, local save, build, diff and scope check.                    *)

Sections == {"profile", "skills", "certifications", "education", "metadata", "experience", "projects"}
TargetChoices == {{}, {"education"}, {"experience"}, {"education", "profile"}}

(* push() returns res, having left the store as s *)
Return(res, before, s) ==
    /\ pc' = "returned"
    /\ store' = s
    /\ result' = _finalize_push_result(res, before, s)

(* the diff of a build against the last known remote hashes *)
ChangedPaths(local_hashes, previous_hashes) ==
    sorted({path \in DOMAIN local_hashes :
               path \notin DOMAIN previous_hashes \/ previous_hashes[path] # local_hashes[path]})
DeletedPaths(local_hashes, previous_hashes) ==
    sorted({path \in DOMAIN previous_hashes : path \notin DOMAIN local_hashes})

(* push(): "if not self.store.dirty" *)
NotDirtyIgnored(s) == FALSE
NotDirty(s) == ~s.dirty

(* the result dict once validation has passed and the store was saved *)
SavedResult == [_base_result EXCEPT !.validated = TRUE, !.validation_ran = TRUE, !.local_saved = TRUE]

(* push() returns early, before any local of the remote phase exists *)
EarlyReturn(res, s, target_sections, approved_sections) ==
    /\ Return(res, store, s)
    /\ px' = [PxIdle EXCEPT !.target_sections = target_sections,
                            !.approved_sections = approved_sections]

(* push() raises, the store left as s *)
Raise(s, res) ==
    /\ pc' = "raised"
    /\ store' = s
    /\ result' = res
    /\ px' = PxIdle

(* the diff is known: no-op, scope check, or on to the first attempt *)
PushDiffed(s, p) ==
    /\ px' = p
    /\ IF p.changed_paths = <<>> /\ p.deleted_paths = <<>>
       THEN Return([SavedResult EXCEPT !.ok = TRUE, !.pushed = FALSE, !.persisted = TRUE,
                                       !.reason = "hashes_unchanged", !.verify_ok = TRUE], store, s)
       ELSE IF p.target_sections # {}
               /\ _disallowed_changed_paths(p.changed_paths, p.deleted_paths, p.target_sections) # {}
       THEN Return([SavedResult EXCEPT !.ok = FALSE, !.pushed = FALSE, !.persisted = FALSE,
                                       !.reason = "disallowed_changed_paths",
                                       !.error_code = "unapproved_section_changes"], store, s)
       ELSE /\ pc' = "get_memory_repo"
            /\ store' = s
            /\ result' = SavedResult

(* the split documents are hashed and compared with the last known remote hashes *)
PushHashed(s, p, local_hashes) ==
    PushDiffed(s, [p EXCEPT !.local_hashes = local_hashes,
                            !.changed_paths = ChangedPaths(local_hashes, status(s).remote_file_hashes),
                            !.deleted_paths = DeletedPaths(local_hashes, status(s).remote_file_hashes)])

PushBuilt(s, p, docs) ==
    PushHashed(s, [p EXCEPT !.docs = docs], [path \in DOMAIN docs |-> canonical_json_sha256(docs[path])])

(* what a build_split_documents replaced by the caller returns *)
PatchedBuild == [path \in {LEGACY_AGGREGATE_FILE} |-> [bad |-> TRUE]]

(* self.store.build_split_documents(), the method the store object has *)
BuildOf(s, t) ==
    IF sync.patched_build THEN PatchedBuild ELSE build_split_documents(s.corpus[1], t)

(* store.save() has run: sv is what it left *)
PushSaved(p, t, sv) ==
    IF sv.raised THEN Raise(sv.s, [_base_result EXCEPT !.validated = TRUE, !.validation_ran = TRUE])
    ELSE PushBuilt(sv.s, p, BuildOf(sv.s, t))

(* the store is loaded (l is what load() left): the gates of push() *)
PushLoaded(target_sections, approved_sections, t, l) ==
    IF l.raised THEN Raise(l.s, _base_result)
    ELSE IF target_sections # {}
            /\ ~assert_sections_explicitly_approved(approved_sections, target_sections)
    THEN EarlyReturn([_base_result EXCEPT !.ok = FALSE, !.reason = "missing_explicit_approvals",
                                          !.error_code = "approval_missing"],
                     l.s, target_sections, approved_sections)
    ELSE IF NotDirty(l.s)
    THEN EarlyReturn([_base_result EXCEPT !.ok = TRUE, !.pushed = FALSE, !.persisted = TRUE,
                                          !.reason = "not_dirty", !.verify_ok = TRUE],
                     l.s, target_sections, approved_sections)
    ELSE IF ~sync.adapters
    THEN EarlyReturn([_base_result EXCEPT !.ok = FALSE, !.reason = "missing_adapters",
                                          !.error_code = "api_unknown"],
                     l.s, target_sections, approved_sections)
    ELSE IF ~validate(l.s)
    THEN EarlyReturn([_base_result EXCEPT !.ok = FALSE, !.reason = "schema_validation_failed",
                                          !.error_code = "validation_failed",
                                          !.validation_ran = TRUE],
                     l.s, target_sections, approved_sections)
    ELSE IF ~assert_notes_content_only(l.s.corpus[1])
            \/ ~assert_validation_claim_allowed(TRUE, TRUE)
    THEN EarlyReturn([_base_result EXCEPT !.ok = FALSE, !.reason = "notes_process_text",
                                          !.error_code = "notes_policy_violation",
                                          !.validation_ran = TRUE],
                     l.s, target_sections, approved_sections)
    ELSE PushSaved([PxIdle EXCEPT !.target_sections = target_sections,
                                  !.approved_sections = approved_sections],
                   t, save(l.s))

(* push() up to its first remote call; _utc_now() reads t *)
PushBegin(target_sections, approved_sections, t) ==
    /\ pc = "idle"
    /\ nPushes < MaxPushes
    /\ nPushes' = nPushes + 1
    /\ pushStart' = store
    /\ calls' = NoCalls
    /\ now' = t
    /\ UNCHANGED <<remote, nOther, sync, boot, pullx, stx, fsx, nEdits>>
    /\ PushLoaded(target_sections, approved_sections, t, _ensure_loaded(store))

(* the caller has the result (or the exception); the call frame is gone *)
PushReturn ==
    /\ pc \in {"returned", "raised"}
    /\ pc' = "idle"
    /\ px' = PxIdle
    /\ result' = _base_result
    /\ calls' = NoCalls
    /\ pushStart' = IdleStore
    /\ UNCHANGED <<store, envVars, nEdits, nPushes>>

(* push(target_sections, approved_sections); _utc_now() reads t, the     *)
(* clock never running backwards                                          *)
Push ==
    \E target_sections \in TargetChoices :
        \E approved_sections \in [target_sections -> ApprovalValues] :
            \E t \in {now, IF now < MaxClock THEN now + 1 ELSE now} :
                PushBegin(target_sections, approved_sections, t)

----------------------------------------------------------------------------
(* One push attempt: _attempt_git_push, one step per adapter call.  The    *)
(* answer of an adapter is any answer the protocol allows.                  *)

AttemptLocalsSkipping(p, attempt) ==
    [p EXCEPT !.attempt = attempt + 1, !.parent_commit_sha = RootCommit, !.base_tree_sha = <<>>,
              !.blob_shas = <<>>, !.new_tree_sha = <<>>, !.new_commit_sha = RootCommit]
AttemptLocals(p, attempt) ==
    [p EXCEPT !.attempt = attempt, !.parent_commit_sha = RootCommit, !.base_tree_sha = <<>>,
              !.blob_shas = <<>>, !.new_tree_sha = <<>>, !.new_commit_sha = RootCommit]

(* PushAttemptResult, the fields push() reads *)
PushAttemptResult(ok, error_code, reason, retryable) ==
    [ok |-> ok, error_code |-> error_code, reason |-> reason, retryable |-> retryable]

(* the retry loop of push() runs one more attempt *)
RetryAllowedOnceMore(attempt, retryable) == retryable /\ attempt <= sync.max_retries
RetryAllowedWhateverFailed(attempt, retryable) == attempt + 1 <= sync.max_retries
RetryAllowed(attempt, retryable) == retryable /\ attempt + 1 <= sync.max_retries

(* the attempt returned PushAttemptResult(ok=False, ...): the retry loop  *)
(* of push() either starts the next attempt or gives up.  attempt_results *)
(* lists what the attempts of this push() returned, in order.              *)
AttemptFailed(error_code, reason, retryable) ==
    LET res == [result EXCEPT !.retry_count = px.attempt]
        log == Append(px.attempt_results, PushAttemptResult(FALSE, error_code, reason, retryable))
    IN  IF RetryAllowed(px.attempt, retryable)
        THEN /\ pc' = "get_memory_repo"
             /\ px' = [AttemptLocals(px, px.attempt + 1) EXCEPT !.attempt_results = log]
             /\ result' = res
             /\ UNCHANGED <<store, pushStart>>
        ELSE /\ Return([res EXCEPT !.ok = FALSE, !.pushed = FALSE, !.persisted = FALSE,
                                    !.reason = reason, !.error_code = error_code], pushStart, store)
             /\ px' = [px EXCEPT !.attempt_results = log]
             /\ UNCHANGED pushStart

GetMemoryRepo ==
    /\ pc = "get_memory_repo"
    /\ calls' = Called("get_memory_repo")
    /\ UNCHANGED <<envVars, nEdits, nPushes>>
    /\ \E answer \in {"ok", "404", "no_default_branch"} :
          IF answer = "404" THEN AttemptFailed("api_404", "memory_repo_not_found", FALSE)
          ELSE IF answer = "no_default_branch"
          THEN AttemptFailed("api_unknown", "default_branch_missing", FALSE)
          ELSE /\ pc' = "get_branch_ref"
               /\ UNCHANGED <<store, px, result, pushStart>>

GetBranchRef ==
    /\ pc = "get_branch_ref"
    /\ calls' = Called("get_branch_ref")
    /\ UNCHANGED <<envVars, nEdits, nPushes>>
    /\ \E answer \in {"ok", "409", "404", "no_sha"} :
          IF answer = "409" THEN AttemptFailed("ref_conflict", "branch_ref_conflict", TRUE)
          ELSE IF answer = "404" THEN AttemptFailed("api_404", "branch_ref_not_found", FALSE)
          ELSE IF answer = "no_sha"
          THEN AttemptFailed("api_unknown", "parent_commit_sha_missing", FALSE)
          ELSE /\ pc' = "get_git_commit"
               /\ px' = [px EXCEPT !.parent_commit_sha = remote.head]
               /\ UNCHANGED <<store, result, pushStart>>

GetParentCommit ==
    /\ pc = "get_git_commit"
    /\ calls' = Called("get_git_commit")
    /\ UNCHANGED <<envVars, nEdits, nPushes>>
    /\ \E answer \in {"ok", "404", "no_tree"} :
          IF answer = "404" THEN AttemptFailed("api_404", "parent_commit_not_found", FALSE)
          ELSE IF answer = "no_tree"
          THEN AttemptFailed("api_unknown", "base_tree_sha_missing", FALSE)
          ELSE /\ pc' = IF px.changed_paths = <<>> THEN "create_git_tree" ELSE "create_git_blob"
               /\ px' = [px EXCEPT !.base_tree_sha = px.parent_commit_sha.tree]
               /\ UNCHANGED <<store, result, pushStart>>

(* create_git_blob for the next changed path *)
CreateGitBlob ==
    /\ pc = "create_git_blob"
    /\ calls' = Called("create_git_blob")
    /\ UNCHANGED <<envVars, nEdits, nPushes>>
    /\ LET path == px.changed_paths[Cardinality(DOMAIN px.blob_shas) + 1]
           sha == git_blob_sha(canonical_json_text(px.docs[path]))
           shas == [q \in DOMAIN px.blob_shas \cup {path} |->
                       IF q = path THEN sha ELSE px.blob_shas[q]]
       IN  \E answer \in {"ok", "422", "no_sha"} :
              IF answer = "422" THEN AttemptFailed("api_422", "blob_rejected", TRUE)
              ELSE IF answer = "no_sha" THEN AttemptFailed("api_unknown", "blob_sha_missing", FALSE)
              ELSE /\ pc' = IF Cardinality(DOMAIN shas) = Len(px.changed_paths)
                             THEN "create_git_tree" ELSE "create_git_blob"
                   /\ px' = [px EXCEPT !.blob_shas = shas]
                   /\ UNCHANGED <<store, result, pushStart>>

(* the tree a faithful create_git_tree builds from base_tree and entries *)
NewTree(base, blob_shas, deleted_paths) ==
    [q \in (DOMAIN base \cup DOMAIN blob_shas) \ Range(deleted_paths) |->
        IF q \in DOMAIN blob_shas THEN blob_shas[q] ELSE base[q]]

(* trees an unfaithful transport may store instead *)
CorruptTrees(base, blob_shas, deleted_paths) ==
    LET good == NewTree(base, blob_shas, deleted_paths)
    IN  {[good EXCEPT ![q] = TamperedBlob] : q \in DOMAIN blob_shas}
        \cup {[q \in DOMAIN good \ {d} |-> good[q]] : d \in DOMAIN blob_shas}
        \cup (IF deleted_paths = <<>> THEN {}
              ELSE {NewTree(base, blob_shas, <<>>)})

CreateGitTree ==
    /\ pc = "create_git_tree"
    /\ calls' = Called("create_git_tree")
    /\ UNCHANGED <<envVars, nEdits, nPushes>>
    /\ \/ AttemptFailed("api_422", "tree_rejected", TRUE)
       \/ AttemptFailed("api_unknown", "new_tree_sha_missing", FALSE)
       \/ \E tree \in {NewTree(px.base_tree_sha, px.blob_shas, px.deleted_paths)}
                       \cup CorruptTrees(px.base_tree_sha, px.blob_shas, px.deleted_paths) :
              /\ pc' = "create_git_commit"
              /\ px' = [px EXCEPT !.new_tree_sha = tree]
              /\ UNCHANGED <<store, result, pushStart>>

CreateGitCommit ==
    /\ pc = "create_git_commit"
    /\ calls' = Called("create_git_commit")
    /\ UNCHANGED <<envVars, nEdits, nPushes>>
    /\ \/ AttemptFailed("api_422", "commit_rejected", TRUE)
       \/ AttemptFailed("api_unknown", "new_commit_sha_missing", FALSE)
       \/ /\ pc' = "update_branch_ref"
          /\ px' = [px EXCEPT !.new_commit_sha = git_commit_sha(px.new_tree_sha, px.parent_commit_sha)]
          /\ UNCHANGED <<store, result, pushStart>>

(* the attempt returned PushAttemptResult(ok=True, ...) *)
AttemptSucceededRecords ==
    /\ pc' = "verify_get_git_commit"
    /\ result' = [result EXCEPT !.retry_count = px.attempt, !.remote_written = TRUE,
                                !.remote_commit_sha = Some(px.new_commit_sha),
                                !.remote_branch = Some(DEFAULT_BRANCH)]
    /\ px' = [px EXCEPT !.attempt_results = Append(@, PushAttemptResult(TRUE, "None", "None", FALSE))]
    /\ store' = mark_push_success(store, None, None, Some(px.new_commit_sha),
                                  Some(DEFAULT_BRANCH), px.local_hashes, METHOD, now)
    /\ UNCHANGED pushStart
AttemptSucceeded ==
    /\ pc' = "verify_get_git_commit"
    /\ result' = [result EXCEPT !.retry_count = px.attempt,
                                !.remote_written = TRUE,
                                !.remote_blob_sha = IF INDEX_FILE \in DOMAIN px.blob_shas
                                                    THEN Some(px.blob_shas[INDEX_FILE]) ELSE None,
                                !.remote_commit_sha = Some(px.new_commit_sha),
                                !.remote_branch = Some(DEFAULT_BRANCH)]
    /\ px' = [px EXCEPT !.attempt_results = Append(@, PushAttemptResult(TRUE, "None", "None", FALSE))]
    /\ UNCHANGED <<store, pushStart>>

(* the "force" member of the payload _attempt_git_push sends *)
UpdateForceAlways == TRUE
UpdateForce == FALSE

(* a remote that moves the branch and answers 409 all the same *)
UpdateBranchRefAppliedYetRejected ==
    /\ pc = "update_branch_ref"
    /\ calls' = Called("update_branch_ref")
    /\ UNCHANGED <<now, nOther, sync, boot, pullx, stx, fsx, nEdits, nPushes>>
    /\ remote' = [remote EXCEPT !.head = px.new_commit_sha]
    /\ AttemptFailed("ref_conflict", "ref_update_conflict", TRUE)

(* update_branch_ref(branch, {sha, force}).  A remote that applies the    *)
(* update does so, unless forced, only when it is a fast-forward of the    *)
(* head; it may also answer 409, 422, 404 or any other error and leave     *)
(* the head alone.                                                         *)
UpdateBranchRef ==
    /\ pc = "update_branch_ref"
    /\ calls' = Called("update_branch_ref")
    /\ UNCHANGED <<now, nOther, sync, boot, pullx, stx, fsx, nEdits, nPushes>>
    /\ \/ /\ UpdateForce \/ remote.head = px.parent_commit_sha
          /\ remote' = [remote EXCEPT !.head = px.new_commit_sha]
          /\ AttemptSucceeded
       \/ /\ UNCHANGED remote
          /\ \E answer \in {"409", "422", "404", "500"} :
                IF answer = "409" THEN AttemptFailed("ref_conflict", "ref_update_conflict", TRUE)
                ELSE IF answer = "422" THEN AttemptFailed("api_422", "ref_update_rejected", TRUE)
                ELSE IF answer = "404" THEN AttemptFailed("api_404", "ref_update_not_found", FALSE)
                ELSE AttemptSucceeded

----------------------------------------------------------------------------
(* After the attempt loop: _verify_push_result, then mark_push_success *)

(* _verify_push_result returned verification: push() lines 380-432 *)
Verified(verification) ==
    /\ px' = [px EXCEPT !.verification = verification]
    /\ UNCHANGED pushStart
    /\ IF ~verification.ok
       THEN Return([result EXCEPT !.verification = [ok |-> FALSE, error |-> verification.error],
                                  !.verify_ok = FALSE,
                                  !.ok = FALSE, !.pushed = TRUE, !.persisted = FALSE,
                                  !.reason = verification.error,
                                  !.error_code = "transport_corruption"], pushStart, store)
       ELSE IF ~assert_persist_claim_allowed(TRUE, TRUE)
       THEN Return([result EXCEPT !.verification = [ok |-> TRUE, error |-> "None"],
                                  !.verify_ok = TRUE,
                                  !.ok = FALSE, !.pushed = TRUE, !.persisted = FALSE,
                                  !.reason = "persist_claim_not_allowed",
                                  !.error_code = "persist_claim_invalid"], pushStart, store)
       ELSE Return([result EXCEPT !.verification = [ok |-> TRUE, error |-> "None"],
                                  !.verify_ok = TRUE,
                                  !.ok = TRUE, !.pushed = TRUE, !.persisted = TRUE,
                                  !.reason = "push_verified", !.error_code = "None"],
                   pushStart,
                   mark_push_success(store, verification.remote_index_sha,
                                     result.remote_blob_sha, result.remote_commit_sha,
                                     result.remote_branch, px.local_hashes, METHOD, now))

VerifyGetGitCommit ==
    /\ pc = "verify_get_git_commit"
    /\ calls' = Called("get_git_commit")
    /\ UNCHANGED <<envVars, nEdits, nPushes>>
    /\ \/ Verified([ok |-> FALSE, error |-> "verification_tree_missing", remote_index_sha |-> None])
       \/ /\ pc' = "verify_get_git_tree"
          /\ px' = [px EXCEPT !.verify_tree_sha = px.new_commit_sha.tree]
          /\ UNCHANGED <<store, result, pushStart>>

VerifyGetGitTree ==
    /\ pc = "verify_get_git_tree"
    /\ calls' = Called("get_git_tree")
    /\ UNCHANGED <<envVars, nEdits, nPushes>>
    /\ \/ \* the answer holds no 'tree' list: _tree_path_to_blob_sha raises
          /\ pc' = "raised"
          /\ UNCHANGED <<store, px, result, pushStart>>
       \/ Verified(_verify_push_result(px.verify_tree_sha, px.blob_shas,
                                       px.changed_paths, px.deleted_paths))

----------------------------------------------------------------------------
(* pull(): _pull_split.  The remote is read once, at get_branch_ref: every *)
(* later read names an object by its id, so pull() is one step.  answer    *)
(* names the first answer of an adapter that is not the faithful one.      *)

(* get_git_blob on a content-addressed store, and json.loads of the text *)
get_git_blob(blob_sha) == blob_sha.blob
json_loads(text) == text.json
_read_blob_json(blob_sha) == json_loads(get_git_blob(blob_sha))

PullAnswers ==
    { "ok", "repo_404", "no_default_branch", "ref_404", "no_sha", "commit_404", "no_tree",
      "no_tree_list", "index_blob_404", "blob_404" }

(* replace_corpus(validate=False) has run: rp is what it left *)
PullReplaced(rp, index_sha, c) ==
    PullOut(rp.s, rp.raised,
            PullResult(TRUE, TRUE, "pulled", "None", Some(index_sha), Some(status(rp.s).dirty)), c)

(* assemble_from_split_documents has run: a is its outcome *)
PullAssembled(s, a, manifest, index_sha, t, c) ==
    IF a.raised THEN PullOut(s, TRUE, NoPullResult, c)
    ELSE PullReplaced(replace_corpus(s, a.corpus[1], Some(index_sha), Some(DEFAULT_BRANCH),
                                     Some(IndexMember(manifest, "file_hashes")), FALSE, t),
                      index_sha, c)

(* the position of the first referenced path the tree does not hold, or 0 *)
FirstMissing(referenced, path_to_blob) ==
    IF \A i \in 1..Len(referenced) : referenced[i] \in DOMAIN path_to_blob THEN 0
    ELSE CHOOSE i \in 1..Len(referenced) :
             /\ referenced[i] \notin DOMAIN path_to_blob
             /\ \A j \in 1..(i - 1) : referenced[j] \in DOMAIN path_to_blob

(* the manifest is read: every path it references is looked up and read *)
PullReferenced(s, path_to_blob, manifest, referenced, index_sha, answer, t) ==
    IF FirstMissing(referenced, path_to_blob) # 0
    THEN PullFailed(s, "split_file_missing", "transport_corruption",
                    PullCalls(1, 1, 1, 1, FirstMissing(referenced, path_to_blob)))
    ELSE IF answer = "blob_404" /\ referenced # <<>>
    THEN PullOut(s, TRUE, NoPullResult, PullCalls(1, 1, 1, 1, 1 + Len(referenced)))
    ELSE PullAssembled(s,
                       assemble_from_split_documents(manifest,
                           [p \in Range(referenced) |-> _read_blob_json(path_to_blob[p])]),
                       manifest, index_sha, t, PullCalls(1, 1, 1, 1, 1 + Len(referenced)))

RemoteMissingStoreReset(s, c) ==
    PullOut([s EXCEPT !.corpus = None, !.dirty = FALSE], FALSE,
            PullResult(TRUE, FALSE, "remote_missing", "api_404", None, None), c)

(* the tree holds nothing at the manifest path *)
RemoteMissing(s, c) ==
    PullOut(s, FALSE, PullResult(TRUE, FALSE, "remote_missing", "api_404", None, None), c)

(* the tree is read: manifest lookup and the sha_unchanged short cut *)
PullManifest(s, path_to_blob, force, answer, t) ==
    IF INDEX_FILE \notin DOMAIN path_to_blob
    THEN RemoteMissing(s, PullCalls(1, 1, 1, 1, 0))
    ELSE IF ~force /\ status(s).remote_file_sha = Some(path_to_blob[INDEX_FILE])
    THEN PullOut(s, FALSE,
                 PullResult(TRUE, FALSE, "sha_unchanged", "None", Some(path_to_blob[INDEX_FILE]), None),
                 PullCalls(1, 1, 1, 1, 0))
    ELSE IF answer = "index_blob_404"
    THEN PullOut(s, TRUE, NoPullResult, PullCalls(1, 1, 1, 1, 1))
    ELSE PullReferenced(s, path_to_blob, _read_blob_json(path_to_blob[INDEX_FILE]),
                        index_referenced_paths(_read_blob_json(path_to_blob[INDEX_FILE])),
                        path_to_blob[INDEX_FILE], answer, t)

_pull_split(s, head, force, answer, t) ==
    IF answer = "repo_404"
    THEN PullFailed(s, "memory_repo_not_found", "api_404", PullCalls(1, 0, 0, 0, 0))
    ELSE IF answer = "no_default_branch"
    THEN PullFailed(s, "default_branch_missing", "api_unknown", PullCalls(1, 0, 0, 0, 0))
    ELSE IF answer = "ref_404"
    THEN PullFailed(s, "branch_ref_not_found", "api_404", PullCalls(1, 1, 0, 0, 0))
    ELSE IF answer = "no_sha"
    THEN PullFailed(s, "parent_commit_sha_missing", "api_unknown", PullCalls(1, 1, 0, 0, 0))
    ELSE IF answer = "commit_404"
    THEN PullFailed(s, "parent_commit_not_found", "api_404", PullCalls(1, 1, 1, 0, 0))
    ELSE IF answer = "no_tree"
    THEN PullFailed(s, "base_tree_sha_missing", "api_unknown", PullCalls(1, 1, 1, 0, 0))
    ELSE IF answer = "no_tree_list"
    THEN PullOut(s, TRUE, NoPullResult, PullCalls(1, 1, 1, 1, 0))
    ELSE PullManifest(s, head.tree, force, answer, t)

(* pull(force) *)
pull(s, head, force, answer, t) ==
    IF ~sync.adapters
    THEN PullFailed(s, "missing_pull_adapters", "api_unknown", NoCalls)
    ELSE _pull_split(s, head, force, answer, t)

PullDone(force, t, out) ==
    /\ store' = out.s
    /\ now' = t
    /\ pullx' = [ n |-> pullx.n + 1, force |-> force, before |-> store, after |-> out.s,
                  raised |-> out.raised, result |-> out.result, calls |-> out.calls,
                  tree |-> remote.head.tree ]

(* sync.pull(force), no push() being under way; _utc_now(), which only     *)
(* replace_corpus calls, reads t                                           *)
PullAnswered(answers) ==
    /\ pc \in {"idle", "returned"}
    /\ pullx.n < MaxPulls
    /\ \E force \in BOOLEAN :
          \E answer \in answers :
             \E t \in IF answer = "ok" /\ now < MaxClock THEN {now, now + 1} ELSE {now} :
                PullDone(force, t, pull(store, remote.head, force, answer, t))
    /\ UNCHANGED <<pushVars, remote, nOther, sync, boot, stx, fsx, nEdits>>

Pull == PullAnswered(PullAnswers)

(* Remote branches a pull() can meet.  A store other than this one has     *)
(* pushed an edit of the synced document; the repository holds no memory   *)
(* files; it holds the split files at its root, as older versions wrote    *)
(* them; a file the manifest references is gone from the tree.             *)
OtherCorpus == [InitialCorpus EXCEPT !.education = <<[id |-> "edu_a", v |-> 2]>>]
OtherDocs == build_split_documents(OtherCorpus, 0)
TreeOf(docs) == [p \in DOMAIN docs |-> git_blob_sha(canonical_json_text(docs[p]))]
OtherCommit == git_commit_sha(TreeOf(OtherDocs), SyncedCommit)
EmptyCommit == git_commit_sha(<<>>, RootCommit)
RootPath(p) == <<p[3]>> \o SubSeq(p, 4, Len(p))
LegacyRootDocs ==
    [q \in {RootPath(p) : p \in DOMAIN SyncedDocs} |->
        LET p == CHOOSE p \in DOMAIN SyncedDocs : RootPath(p) = q
        IN  IF p # INDEX_FILE THEN SyncedDocs[p]
            ELSE [ SyncedDocs[p] EXCEPT
                     !.core_files = [k \in DOMAIN @ |-> RootPath(@[k])],
                     !.experience_files = [i \in DOMAIN @ |-> [@[i] EXCEPT !.path = RootPath(@)]],
                     !.project_files = [i \in DOMAIN @ |-> [@[i] EXCEPT !.path = RootPath(@)]],
                     !.file_hashes = [r \in {RootPath(x) : x \in DOMAIN @} |->
                                         @[CHOOSE x \in DOMAIN @ : RootPath(x) = r]] ]]
LegacyRootCommit == git_commit_sha(TreeOf(LegacyRootDocs), RootCommit)
Without(tree, path) == [p \in DOMAIN tree \ {path} |-> tree[p]]
MissingFileCommits ==
    { git_commit_sha(Without(SyncedTree, ExperiencePath("exp_a")), SyncedCommit),
      git_commit_sha(Without(TreeOf(OtherDocs), METADATA_FILE), SyncedCommit) }
PullRemotes ==
    {SyncedCommit, OtherCommit, EmptyCommit, LegacyRootCommit} \cup MissingFileCommits

InitPull ==
    /\ store \in {NewStore(Some(file), Some(SyncedMeta)) : file \in {InitialCorpus, LegacyCorpus}}
    /\ remote \in {[head |-> c] : c \in PullRemotes}
    /\ now = 0
    /\ pc = "idle"
    /\ px = PxIdle
    /\ result = _base_result
    /\ calls = NoCalls
    /\ pushStart = IdleStore
    /\ nEdits = 0
    /\ nPushes = 0
    /\ nOther = 0
    /\ sync \in {[max_retries |-> 1, adapters |-> a, patched_build |-> FALSE] : a \in BOOLEAN}
    /\ pullx = PullIdle
    /\ stx = StxIdle
    /\ fsx = FsxIdle
    /\ boot = BootIdle

NextPull == Load \/ Save \/ Set \/ Pull

SpecPull == InitPull /\ [][NextPull]_vars

----------------------------------------------------------------------------
(* A second store instance, synced at the same state as this one, edits an *)
(* experience record or adds one, and push()es it with every call answered *)
(* faithfully: build_split_documents, the diff against the hashes of the   *)
(* last sync, one blob per changed path, the tree on top of the tree of    *)
(* the head it resolved, the commit, the pointer update.                   *)
OtherEdits == {"edit", "add"}
OtherEdited(e) ==
    IF e = "edit" THEN [InitialCorpus EXCEPT !.experience[1].v = 2]
    ELSE [InitialCorpus EXCEPT !.experience = Append(@, [id |-> "exp_o1", v |-> 0])]
OtherBlobs(docs, changed_paths) ==
    [p \in Range(changed_paths) |-> git_blob_sha(canonical_json_text(docs[p]))]
OtherDiffed(head, docs, local_hashes) ==
    git_commit_sha(NewTree(head.tree,
                           OtherBlobs(docs, ChangedPaths(local_hashes, SyncedMeta.remote_file_hashes)),
                           DeletedPaths(local_hashes, SyncedMeta.remote_file_hashes)),
                   head)
OtherBuilt(head, docs) ==
    OtherDiffed(head, docs, [path \in DOMAIN docs |-> canonical_json_sha256(docs[path])])
OtherPushed(head, doc, t) == OtherBuilt(head, build_split_documents(doc, t))

(* The push() of the second instance moves the branch.  This push() sees   *)
(* the branch only at get_branch_ref and at update_branch_ref.             *)
OtherPush ==
    /\ pc \in {"get_branch_ref", "update_branch_ref"}
    /\ nOther < MaxOtherWrites
    /\ \E e \in OtherEdits :
          remote' = [remote EXCEPT !.head = OtherPushed(remote.head, OtherEdited(e), now)]
    /\ nOther' = nOther + 1
    /\ UNCHANGED <<store, now, pc, px, result, calls, pushStart, nEdits, nPushes, sync, boot, pullx, stx, fsx>>

(* pull() once push() has returned, with every call answered faithfully *)
PullAfterPush ==
    /\ pc = "returned"
    /\ PullAnswered({"ok"})

(* push() without target sections *)
PushAll == \E t \in {now, IF now < MaxClock THEN now + 1 ELSE now} : PushBegin({}, <<>>, t)

(* Two store instances pushing to one branch *)
InitTwo ==
    /\ store = NewStore(Some(InitialCorpus), Some(SyncedMeta))
    /\ remote = [head |-> SyncedCommit]
    /\ now = 0
    /\ pc = "idle"
    /\ px = PxIdle
    /\ result = _base_result
    /\ calls = NoCalls
    /\ pushStart = IdleStore
    /\ nEdits = 0
    /\ nPushes = 0
    /\ nOther = 0
    /\ sync = [max_retries |-> 1, adapters |-> TRUE, patched_build |-> FALSE]
    /\ pullx = PullIdle
    /\ stx = StxIdle
    /\ fsx = FsxIdle
    /\ boot = BootIdle

NextTwo ==
    \/ Load \/ Set \/ AppendExperience
    \/ PushAll \/ GetMemoryRepo \/ GetBranchRef \/ GetParentCommit
    \/ CreateGitBlob \/ CreateGitTree \/ CreateGitCommit \/ UpdateBranchRef
    \/ VerifyGetGitCommit \/ VerifyGetGitTree \/ PushReturn
    \/ OtherPush \/ PullAfterPush

SpecTwo == InitTwo /\ [][NextTwo]_vars

(* push() with the store's build_split_documents as it is or replaced by   *)
(* one that returns the single aggregate file                              *)
InitLayout ==
    /\ store \in {NewStore(Some(file), Some(SyncedMeta)) : file \in {InitialCorpus, LegacyCorpus}}
    /\ remote = [head |-> SyncedCommit]
    /\ now = 0
    /\ pc = "idle"
    /\ px = PxIdle
    /\ result = _base_result
    /\ calls = NoCalls
    /\ pushStart = IdleStore
    /\ nEdits = 0
    /\ nPushes = 0
    /\ nOther = 0
    /\ sync \in {[max_retries |-> m, adapters |-> TRUE, patched_build |-> b] :
                    m \in 0..MaxRetriesCfg, b \in BOOLEAN}
    /\ pullx = PullIdle
    /\ stx = StxIdle
    /\ fsx = FsxIdle
    /\ boot = BootIdle

NextLayout ==
    \/ Load \/ Save \/ Set \/ AppendExperience \/ DeleteExperience
    \/ Push \/ GetMemoryRepo \/ GetBranchRef \/ GetParentCommit
    \/ CreateGitBlob \/ CreateGitTree \/ CreateGitCommit \/ UpdateBranchRef
    \/ VerifyGetGitCommit \/ VerifyGetGitTree \/ PushReturn

SpecLayout == InitLayout /\ [][NextLayout]_vars
----------------------------------------------------------------------------
(* The split codec as a function: build_split_documents, then              *)
(* assemble_from_split_documents on the manifest and the documents built.  *)

(* lists of at most n of the records *)
ListsUpTo(records, n) == UNION {[1..k -> records] : k \in 0..n}

(* documents the schema accepts in which every record has an id *)
CodecDocuments ==
    { [InitialCorpus EXCEPT !.profile = p, !.experience = e, !.projects = j] :
        p \in {"p0", "p1", "raw"},
        e \in ListsUpTo({[id |-> i, v |-> v] : i \in {"exp_a", "exp_o1"}, v \in {0, 1}}, MaxCodecRecords),
        j \in ListsUpTo({[id |-> i, v |-> 0] : i \in {"proj_a", "proj_u1"}}, 1) }

(* the documents handed to assemble: every one built but the manifest *)
BuiltSections(docs) == [p \in DOMAIN docs \ {INDEX_FILE} |-> docs[p]]
AssembleBuilt(docs) == assemble_from_split_documents(docs[INDEX_FILE], BuiltSections(docs))
round_trip(doc, t) == AssembleBuilt(build_split_documents(doc, t))

(* store.build_split_documents() on a loaded store, then assemble *)
RoundTrip ==
    /\ stx.op = "none"
    /\ is_loaded(store)
    /\ \E t \in {now, IF now < MaxClock THEN now + 1 ELSE now} :
          /\ stx' = [ n |-> stx.n + 1, op |-> "round_trip", prev |-> stx.op, before |-> store, after |-> store,
                      raised |-> round_trip(store.corpus[1], t).raised,
                      arg |-> <<store.corpus[1]>>, ret |-> round_trip(store.corpus[1], t).corpus ]
          /\ now' = t
    /\ UNCHANGED <<store, pushVars, remote, nOther, sync, boot, pullx, fsx, nEdits>>

InitCodec ==
    /\ store \in {load(NewStore(Some(doc), None)).s : doc \in CodecDocuments}
    /\ remote = [head |-> SyncedCommit]
    /\ now = 0
    /\ pc = "idle"
    /\ px = PxIdle
    /\ result = _base_result
    /\ calls = NoCalls
    /\ pushStart = IdleStore
    /\ nEdits = 0
    /\ nPushes = 0
    /\ nOther = 0
    /\ sync = [max_retries |-> 1, adapters |-> TRUE, patched_build |-> FALSE]
    /\ pullx = PullIdle
    /\ stx = StxIdle
    /\ fsx = FsxIdle
    /\ boot = BootIdle

NextCodec == RoundTrip

SpecCodec == InitCodec /\ [][NextCodec]_vars
----------------------------------------------------------------------------
(* The methods of the store called directly.  A path is a list of parts,   *)
(* a part a key [key |-> k] or a Python list index [idx |-> i].  The kind  *)
(* of a node is "doc" (the document), "list" (a list section), "record"    *)
(* (a record of a list section) or "leaf".                                 *)

Key(k) == [key |-> k]
Idx(i) == [idx |-> i]
IsKey(part) == "key" \in DOMAIN part

(* the position of Python index i in a list, 0 when out of range *)
Pos(list, i) ==
    IF i >= 0 THEN (IF i < Len(list) THEN i + 1 ELSE 0)
    ELSE (IF -i <= Len(list) THEN Len(list) + i + 1 ELSE 0)

(* node[part] does not raise *)
HasItem(node, kind, part) ==
    IF kind = "list" THEN ~IsKey(part) /\ Pos(node, part.idx) # 0
    ELSE IF kind = "leaf" THEN FALSE
    ELSE IsKey(part) /\ part.key \in DOMAIN node
Item(node, kind, part) ==
    IF kind = "list" THEN node[Pos(node, part.idx)] ELSE node[part.key]
ChildKind(kind, part) ==
    IF kind = "list" THEN "record"
    ELSE IF kind = "doc" /\ part.key \in Range(ListSections) THEN "list"
    ELSE "leaf"

(* node[part] = value: a dict takes any key, a list an index in range *)
CanAssign(node, kind, part) ==
    IF kind = "list" THEN ~IsKey(part) /\ Pos(node, part.idx) # 0
    ELSE IF kind = "leaf" THEN FALSE
    ELSE IsKey(part)
WithItem(node, kind, part, value) ==
    IF kind = "list" THEN [node EXCEPT ![Pos(node, part.idx)] = value]
    ELSE [k \in DOMAIN node \cup {part.key} |-> IF k = part.key THEN value ELSE node[k]]

(* _resolve_parent(path) followed by parent[last] = value, on a path that  *)
(* is not empty: [raised, node], node being the new content of the node    *)
RECURSIVE Assigned(_, _, _, _)
AssignedBelow(node, kind, path, sub) ==
    [ raised |-> sub.raised,
      node |-> IF sub.raised THEN node ELSE WithItem(node, kind, Head(path), sub.node) ]
Assigned(node, kind, path, value) ==
    IF Len(path) = 1
    THEN (IF CanAssign(node, kind, path[1])
          THEN [raised |-> FALSE, node |-> WithItem(node, kind, path[1], value)]
          ELSE [raised |-> TRUE, node |-> node])
    ELSE IF ~HasItem(node, kind, Head(path)) THEN [raised |-> TRUE, node |-> node]
    ELSE AssignedBelow(node, kind, path,
                       Assigned(Item(node, kind, Head(path)), ChildKind(kind, Head(path)),
                                Tail(path), value))

(* set(path, value) once the store is loaded; a is the outcome of the      *)
(* assignment                                                              *)
set_assigned_unmarked(s, a) ==
    IF a.raised THEN [s |-> s, raised |-> TRUE]
    ELSE [s |-> [s EXCEPT !.corpus = Some(a.node)], raised |-> FALSE]
set_assigned(s, a) ==
    IF a.raised THEN [s |-> s, raised |-> TRUE]
    ELSE [s |-> _mark_dirty([s EXCEPT !.corpus = Some(a.node)]), raised |-> FALSE]
set_loaded(s, path, value) ==
    IF path = <<>> THEN [s |-> s, raised |-> TRUE]
    ELSE set_assigned(s, Assigned(s.corpus[1], "doc", path, value))
set_after(l, path, value) == IF l.raised THEN l ELSE set_loaded(l.s, path, value)
set_path(s, path, value) == set_after(_ensure_loaded(s), path, value)

(* update(mutator_fn).  A mutator is the document it leaves in place of    *)
(* the one it was given (changed in place or returned), or a return value  *)
(* that is not a dict.                                                     *)
Mutators ==
    {"none", "same_copy", "edit", "strip_id", "add_idless", "not_a_dict", "edit_then_raise"}
Mutated(doc, m) ==
    IF m \in {"edit", "edit_then_raise"} THEN [doc EXCEPT !.education[1].v = 1 - @]
    ELSE IF m = "strip_id" THEN [doc EXCEPT !.education[1].id = ""]
    ELSE IF m = "add_idless" THEN [doc EXCEPT !.projects = Append(@, [id |-> "", v |-> 0])]
    ELSE doc
update_hashed_always(s, before, ids) ==
    [ s |-> _mark_dirty([s EXCEPT !.corpus = Some(ids.doc), !.uuids = ids.k]), raised |-> FALSE ]
update_hashed(s, before, ids) ==
    [ s |-> IF _compute_hash(ids.doc) # before
            THEN _mark_dirty([s EXCEPT !.corpus = Some(ids.doc), !.uuids = ids.k])
            ELSE [s EXCEPT !.corpus = Some(ids.doc), !.uuids = ids.k],
      raised |-> FALSE ]
update_loaded(s, m) ==
    IF m = "not_a_dict" THEN [s |-> s, raised |-> TRUE]
    ELSE IF m = "edit_then_raise"
    THEN [s |-> [s EXCEPT !.corpus = Some(Mutated(s.corpus[1], m))], raised |-> TRUE]
    ELSE update_hashed(s, _compute_hash(s.corpus[1]),
                       _ensure_ids_for_known_lists(Mutated(s.corpus[1], m), s.uuids))
update_after(l, m) == IF l.raised THEN l ELSE update_loaded(l.s, m)
update(s, m) == update_after(_ensure_loaded(s), m)

(* save() *)
save_after(l) == IF l.raised THEN l ELSE save(l.s)
save_call(s) == save_after(_ensure_loaded(s))

(* the records without id a document holds *)
IdlessIn(doc) ==
    UNION { {<<sec, i>> : i \in {j \in 1..Len(doc[sec]) : doc[sec][j].id = ""}} :
            sec \in Range(ListSections) }
IdlessCount(doc) == Cardinality(IdlessIn(doc))

(* the caller has called a method of the store: out is what it left *)
(* get(path) once the store is loaded: [found, node, kind]; found is FALSE *)
(* when node[part] raises on the way                                       *)
RECURSIVE get_in(_, _, _)
get_in(node, kind, path) ==
    IF path = <<>> THEN [found |-> TRUE, node |-> node, kind |-> kind]
    ELSE IF ~HasItem(node, kind, Head(path)) THEN [found |-> FALSE, node |-> node, kind |-> kind]
    ELSE get_in(Item(node, kind, Head(path)), ChildKind(kind, Head(path)), Tail(path))

(* item.get(k), None being the string "None" *)
Get(item, k) == IF k \in DOMAIN item THEN item[k] ELSE "None"
First(hits) == IF hits = {} THEN 0 ELSE CHOOSE i \in hits : \A j \in hits : i <= j

(* a matcher of upsert_experience: none, a dict of fields, or a callable   *)
(* known by its name                                                       *)
NoMatch == [kind |-> "none"]
DictMatch(fields) == [kind |-> "dict", fields |-> fields]
CallableMatch(name) == [kind |-> "callable", name |-> name]
Accepts(name, item) ==
    IF name = "employer_is_bolt" THEN Get(item, "employer") = "bolt" ELSE FALSE

(* _find_by_match for a dict and for a callable: the first index, or 0 *)
_find_by_fields(items, fields) ==
    First({i \in 1..Len(items) : \A k \in DOMAIN fields : Get(items[i], k) = fields[k]})
_find_by_callable(items, name) == First({i \in 1..Len(items) : Accepts(name, items[i])})
_find_by_matcher(items, match) ==
    IF match.kind = "dict" THEN _find_by_fields(items, match.fields)
    ELSE _find_by_callable(items, match.name)

(* the record upsert_experience resolves the incoming item to, 0 for none: *)
(* by id, else by the caller's matcher, else by the fallback triple        *)
FallbackKeys == {"employer", "title", "start_date"}
HasId(item) == Get(item, "id") \notin {"None", ""}
IdIndex(experiences, item) ==
    IF HasId(item) THEN _find_by_match(experiences, item.id) ELSE 0
MatchIndex(experiences, match, idx) ==
    IF idx = 0 /\ match.kind # "none" THEN _find_by_matcher(experiences, match) ELSE idx
FallbackIndex(experiences, item, idx) ==
    IF idx = 0 /\ \A k \in FallbackKeys : Get(item, k) # "None"
    THEN _find_by_fields(experiences, [k \in FallbackKeys |-> item[k]])
    ELSE idx
upsert_index_matcher_first(experiences, item, match) ==
    FallbackIndex(experiences, item,
                  IF MatchIndex(experiences, match, 0) # 0 THEN MatchIndex(experiences, match, 0)
                  ELSE IdIndex(experiences, item))
upsert_index(experiences, item, match) ==
    FallbackIndex(experiences, item, MatchIndex(experiences, match, IdIndex(experiences, item)))

(* {**existing, **item}, and item with item["id"] = id *)
Merged(existing, item) ==
    [k \in DOMAIN existing \cup DOMAIN item |-> IF k \in DOMAIN item THEN item[k] ELSE existing[k]]
WithId(item, id) ==
    [k \in DOMAIN item \cup {"id"} |-> IF k = "id" THEN id ELSE item[k]]

(* upsert_experience(obj, match) once the store is loaded and the index is *)
(* resolved: [s, raised, ret], ret being the id returned                   *)
upsert_appended(s, item, generated) ==
    [ s |-> _mark_dirty([s EXCEPT
                !.corpus = Some([s.corpus[1] EXCEPT
                                    !.experience = Append(@, IF generated
                                                             THEN WithId(item, UuidPool("experience")[s.uuids + 1])
                                                             ELSE item)]),
                !.uuids = IF generated THEN @ + 1 ELSE @]),
      raised |-> FALSE,
      ret |-> <<IF generated THEN UuidPool("experience")[s.uuids + 1] ELSE item.id>> ]
upsert_merged(s, idx, merged, generated) ==
    [ s |-> _mark_dirty([s EXCEPT !.corpus = Some([s.corpus[1] EXCEPT !.experience[idx] = merged]),
                                  !.uuids = IF generated THEN @ + 1 ELSE @]),
      raised |-> FALSE,
      ret |-> <<merged.id>> ]
upsert_existing(s, item, idx, existing) ==
    IF HasId(item) THEN upsert_merged(s, idx, Merged(existing, item), FALSE)
    ELSE IF existing.id # "" THEN upsert_merged(s, idx, Merged(existing, WithId(item, existing.id)), FALSE)
    ELSE upsert_merged(s, idx, Merged(existing, WithId(item, UuidPool("experience")[s.uuids + 1])), TRUE)
upsert_at(s, item, idx) ==
    IF idx = 0 THEN upsert_appended(s, item, ~HasId(item))
    ELSE upsert_existing(s, item, idx, s.corpus[1].experience[idx])
upsert_loaded(s, item, match) ==
    upsert_at(s, item, upsert_index(s.corpus[1].experience, item, match))
upsert_after(l, item, match) ==
    IF l.raised THEN [s |-> l.s, raised |-> TRUE, ret |-> <<>>] ELSE upsert_loaded(l.s, item, match)
upsert_experience(s, item, match) == upsert_after(_ensure_loaded(s), item, match)

(* append_experience, delete_experience and replace_corpus as calls *)
(* append_experience(obj) keeps the id obj brings and generates one when   *)
(* it brings none                                                          *)
append_loaded(s, item) == upsert_appended(s, item, ~HasId(item))
append_after(l, item) ==
    IF l.raised THEN [s |-> l.s, raised |-> TRUE, ret |-> <<>>] ELSE append_loaded(l.s, item)
delete_after(l, id) ==
    IF l.raised THEN [s |-> l.s, raised |-> TRUE, ret |-> <<>>]
    ELSE [ s |-> delete_experience(l.s, id), raised |-> FALSE,
           ret |-> <<_find_by_match(l.s.corpus[1].experience, id) # 0>> ]
StoreCalled(op, arg, out, ret) ==
    /\ store' = out.s
    /\ stx' = [ n |-> stx.n + 1, op |-> op, prev |-> stx.op, before |-> store, after |-> out.s,
                raised |-> out.raised, arg |-> arg, ret |-> ret ]
    /\ UNCHANGED <<pushVars, remote, now, nOther, sync, boot, pullx, fsx, nEdits>>

CanCall == pc = "idle" /\ stx.n < MaxStoreCalls

(* load() *)
StoreLoad ==
    /\ CanCall
    /\ store.uuids + IdlessCount(store.disk[1]) <= UuidLimit
    /\ StoreCalled("load", <<>>, load(store), <<>>)

(* save() *)
StoreSave ==
    /\ CanCall
    /\ is_loaded(store) \/ store.uuids + IdlessCount(store.disk[1]) <= UuidLimit
    /\ StoreCalled("save", <<>>, save_call(store), <<>>)

(* the paths and values set() is called with *)
SetInputs ==
    << [path |-> <<Key("profile")>>, value |-> "p1"],
      [path |-> <<Key("profile")>>, value |-> "bad"],
      [path |-> <<Key("education"), Idx(0), Key("v")>>, value |-> 1],
      [path |-> <<Key("experience"), Idx(-1), Key("v")>>, value |-> 1],
      [path |-> <<Key("experience"), Idx(0), Key("id")>>, value |-> ""],
      [path |-> <<Key("projects"), Idx(0)>>, value |-> [id |-> "", v |-> 0]],
      [path |-> <<Key("education"), Idx(0), Key("honours")>>, value |-> "first"],
      [path |-> <<>>, value |-> "p1"],
      [path |-> <<Key("awards"), Idx(0)>>, value |-> "prize"],
      [path |-> <<Key("education"), Idx(0), Key("honours"), Key("year")>>, value |-> "first"],
      [path |-> <<Key("education"), Idx(5), Key("v")>>, value |-> 1],
      [path |-> <<Key("education"), Idx(-3), Key("v")>>, value |-> 1],
      [path |-> <<Key("education"), Idx(5)>>, value |-> [id |-> "edu_x", v |-> 0]],
      [path |-> <<Key("education"), Key("first")>>, value |-> [id |-> "edu_x", v |-> 0]] >>

(* set(path, value) *)
StoreSet ==
    /\ CanCall
    /\ is_loaded(store) \/ store.uuids + IdlessCount(store.disk[1]) <= UuidLimit
    /\ \E i \in 1..Len(SetInputs) :
          StoreCalled("set", <<i>>, set_path(store, SetInputs[i].path, SetInputs[i].value), <<>>)

(* update(mutator_fn) *)
StoreUpdate ==
    /\ CanCall
    /\ IF is_loaded(store) THEN store.uuids + IdlessCount(store.corpus[1]) + 1 <= UuidLimit
       ELSE store.uuids + IdlessCount(store.disk[1]) + 1 <= UuidLimit
    /\ \E m \in Mutators : StoreCalled("update", <<m>>, update(store, m), <<>>)
(* a document the schema rejects *)
InvalidCorpus == [InitialCorpus EXCEPT !.profile = "bad", !.education[1].v = 1]
(* a document with a record that has no id *)
IdlessCorpus == [InitialCorpus EXCEPT !.experience = <<[id |-> "", v |-> 0]>>]

(* the records and matchers upsert_experience is called with *)
AcmeJob == [employer |-> "acme", title |-> "analyst", start_date |-> "2020"]
BoltJob == [employer |-> "bolt", title |-> "analyst", start_date |-> "2021"]
UpsertItems ==
    << Merged(AcmeJob, [id |-> "exp_o1", v |-> 1]),
       Merged(AcmeJob, [v |-> 1]),
       Merged(BoltJob, [id |-> "", v |-> 1]),
       [employer |-> "bolt", v |-> 1],
       [id |-> "exp_new", v |-> 1] >>
UpsertMatchers ==
    << NoMatch, DictMatch([title |-> "analyst"]), DictMatch([employer |-> "nobody"]),
       CallableMatch("employer_is_bolt") >>

(* upsert_experience(obj, match) *)
StoreUpsert ==
    /\ CanCall
    /\ IF is_loaded(store) THEN store.uuids + 1 <= UuidLimit
       ELSE store.uuids + IdlessCount(store.disk[1]) + 1 <= UuidLimit
    /\ \E i \in 1..Len(UpsertItems), m \in 1..Len(UpsertMatchers) :
          StoreCalled("upsert_experience", <<i, m>>,
                      upsert_experience(store, UpsertItems[i], UpsertMatchers[m]),
                      upsert_experience(store, UpsertItems[i], UpsertMatchers[m]).ret)

(* the records append_experience is called with: without id, with the id  *)
(* of a record of the list, with an id of its own                          *)
AppendItems == << [v |-> 0], [id |-> "exp_a", v |-> 1], [id |-> "exp_new", v |-> 1] >>

(* append_experience(obj) *)
StoreAppend ==
    /\ CanCall
    /\ IF is_loaded(store) THEN store.uuids + 1 <= UuidLimit
       ELSE store.uuids + IdlessCount(store.disk[1]) + 1 <= UuidLimit
    /\ \E i \in 1..Len(AppendItems) :
          StoreCalled("append_experience", <<i>>, append_after(_ensure_loaded(store), AppendItems[i]),
                      append_after(_ensure_loaded(store), AppendItems[i]).ret)

(* delete_experience(key) *)
StoreDelete ==
    /\ CanCall
    /\ is_loaded(store) \/ store.uuids + IdlessCount(store.disk[1]) <= UuidLimit
    /\ \E id \in {"exp_a", "exp_u1"} :
          StoreCalled("delete_experience", <<id>>, delete_after(_ensure_loaded(store), id),
                      delete_after(_ensure_loaded(store), id).ret)

(* replace_corpus(corpus) *)
StoreReplace ==
    /\ CanCall
    /\ \E corpus \in {InitialCorpus, LegacyCorpus, IdlessCorpus, InvalidCorpus} :
          /\ store.uuids + IdlessCount(corpus) <= UuidLimit
          /\ StoreCalled("replace_corpus", <<corpus>>,
                         replace_corpus(store, corpus, None, None, None, TRUE, now), <<>>)

(* The documents a store file holds when the store is opened: in normal    *)
(* form with every id, not yet normalised, with a record that has no id,   *)
(* both, and one the schema rejects                                        *)
StoreFiles ==
    { InitialCorpus, LegacyCorpus, IdlessCorpus, [IdlessCorpus EXCEPT !.profile = "raw"],
      [InitialCorpus EXCEPT !.profile = "bad"] }

InitStore ==
    /\ store \in {NewStore(Some(doc), meta) : doc \in StoreFiles, meta \in {None, Some(SyncedMeta)}}
    /\ remote = [head |-> SyncedCommit]
    /\ now = 0
    /\ pc = "idle"
    /\ px = PxIdle
    /\ result = _base_result
    /\ calls = NoCalls
    /\ pushStart = IdleStore
    /\ nEdits = 0
    /\ nPushes = 0
    /\ nOther = 0
    /\ sync = [max_retries |-> 1, adapters |-> TRUE, patched_build |-> FALSE]
    /\ pullx = PullIdle
    /\ stx = StxIdle
    /\ fsx = FsxIdle
    /\ boot = BootIdle

NextStore ==
    \/ StoreLoad
    \/ StoreSave
    \/ StoreSet
    \/ StoreUpdate

SpecStore == InitStore /\ [][NextStore]_vars

(* load, save, set, update and replace_corpus on the files above and on a  *)
(* file the schema rejects that holds a record without id                  *)
InitDirty ==
    /\ store \in {NewStore(Some(doc), None) :
                    doc \in StoreFiles \cup {[IdlessCorpus EXCEPT !.profile = "bad"]}}
    /\ remote = [head |-> SyncedCommit]
    /\ now = 0
    /\ pc = "idle"
    /\ px = PxIdle
    /\ result = _base_result
    /\ calls = NoCalls
    /\ pushStart = IdleStore
    /\ nEdits = 0
    /\ nPushes = 0
    /\ nOther = 0
    /\ sync = [max_retries |-> 1, adapters |-> TRUE, patched_build |-> FALSE]
    /\ pullx = PullIdle
    /\ stx = StxIdle
    /\ fsx = FsxIdle
    /\ boot = BootIdle

NextDirty ==
    \/ StoreLoad
    \/ StoreSave
    \/ StoreSet
    \/ StoreUpdate
    \/ StoreReplace

SpecDirty == InitDirty /\ [][NextDirty]_vars

(* every method of the store that changes the document *)
NextStoreAll ==
    \/ StoreLoad
    \/ StoreSet
    \/ StoreUpdate
    \/ StoreAppend
    \/ StoreUpsert
    \/ StoreDelete
    \/ StoreReplace

SpecStoreAll == InitStore /\ [][NextStoreAll]_vars

(* upsert_experience on stores whose experience records carry an employer, *)
(* a title and a start date                                                *)
AcmeRecord == Merged(AcmeJob, [id |-> "exp_a", v |-> 0])
BoltRecord == Merged(BoltJob, [id |-> "exp_o1", v |-> 0])
UpsertFiles ==
    { [InitialCorpus EXCEPT !.experience = recs] :
        recs \in { <<AcmeRecord, BoltRecord>>, <<BoltRecord, AcmeRecord>>,
                   <<AcmeRecord, [AcmeRecord EXCEPT !.id = "exp_o1"]>>,
                   <<BoltRecord>>, <<>> } }

InitUpsert ==
    /\ store \in {load(NewStore(Some(doc), None)).s : doc \in UpsertFiles}
    /\ remote = [head |-> SyncedCommit]
    /\ now = 0
    /\ pc = "idle"
    /\ px = PxIdle
    /\ result = _base_result
    /\ calls = NoCalls
    /\ pushStart = IdleStore
    /\ nEdits = 0
    /\ nPushes = 0
    /\ nOther = 0
    /\ sync = [max_retries |-> 1, adapters |-> TRUE, patched_build |-> FALSE]
    /\ pullx = PullIdle
    /\ stx = StxIdle
    /\ fsx = FsxIdle
    /\ boot = BootIdle

NextUpsert == StoreUpsert

SpecUpsert == InitUpsert /\ [][NextUpsert]_vars

(* the three methods that edit the experience list, on the same stores *)
NextExperience ==
    \/ StoreAppend
    \/ StoreUpsert
    \/ StoreDelete

SpecExperience == InitUpsert /\ [][NextExperience]_vars
----------------------------------------------------------------------------
(* save() and load() step by step through _atomic_write_json, next to a    *)
(* process that reads the files.  A file is None (absent), <<payload>>     *)
(* (the whole text) or a text cut short after some of its chunks.          *)

Partial(payload, chunks) == <<[partial |-> payload, chunks |-> chunks]>>
IsComplete(file) == file # None /\ "partial" \notin DOMAIN file[1]

FileAt(s, tmp, name) ==
    IF name = "doc" THEN s.disk ELSE IF name = "meta" THEN s.metaDisk ELSE tmp[name]
Put(s, tmp, name, content) ==
    [ s |-> IF name = "doc" THEN [s EXCEPT !.disk = content]
            ELSE IF name = "meta" THEN [s EXCEPT !.metaDisk = content]
            ELSE s,
      tmp |-> IF name \in DOMAIN tmp THEN [tmp EXCEPT ![name] = content] ELSE tmp ]

(* path.with_name(f".{path.name}.tmp") *)
tmp_path_is_path(path) == path
tmp_path(path) == IF path = "doc" THEN DOC_TMP ELSE META_TMP

(* os.replace(src, dst) *)
Moved(s, tmp, src, dst, content) ==
    Put(Put(s, tmp, dst, content).s, Put(s, tmp, dst, content).tmp, src, None)
os_replace_copying(s, tmp, src, dst) ==
    IF src = dst THEN [s |-> s, tmp |-> tmp] ELSE Put(s, tmp, dst, FileAt(s, tmp, src))
os_replace(s, tmp, src, dst) ==
    IF src = dst THEN [s |-> s, tmp |-> tmp] ELSE Moved(s, tmp, src, dst, FileAt(s, tmp, src))

(* _atomic_write_json(path, payload) up to tmp_path.open("w"): the temp    *)
(* file exists and is empty                                                *)
Opened(op, before, s, path, payload, next, f) ==
    /\ store' = Put(s, f.tmp, tmp_path(path), Partial(payload, 0)).s
    /\ fsx' = [f EXCEPT !.wpc = "opened", !.path = path, !.payload = Some(payload),
                        !.next = next, !.op = op, !.returned = FALSE, !.raised = FALSE,
                        !.before = before,
                        !.tmp = Put(s, f.tmp, tmp_path(path), Partial(payload, 0)).tmp,
                        !.news[path] = Some(payload)]

(* a method returned without writing, or raised *)
NotWritten(op, s, raised) ==
    /\ store' = s
    /\ fsx' = [fsx EXCEPT !.op = op, !.returned = ~raised, !.raised = raised, !.before = store,
                          !.news = [name \in {"doc", "meta"} |-> None]]

FilesUnchanged == UNCHANGED <<pushVars, remote, now, nOther, sync, boot, pullx, stx>>

(* save(): up to the opening of the temp file of the document *)
FilesSaveOpen(s, doc) ==
    IF validate_on_save /\ ~validate([s EXCEPT !.corpus = Some(doc)])
    THEN NotWritten("save", [s EXCEPT !.corpus = Some(doc)], TRUE)
    ELSE Opened("save", store, [s EXCEPT !.corpus = Some(doc)], "doc", doc, "save_meta",
                [fsx EXCEPT !.news = [name \in {"doc", "meta"} |-> None]])
FilesSave ==
    /\ pc = "idle" /\ fsx.wpc = "idle"
    /\ is_loaded(store)
    /\ IF ~store.dirty THEN NotWritten("save", store, FALSE)
       ELSE FilesSaveOpen(store, normalize(store.corpus[1]))
    /\ FilesUnchanged /\ UNCHANGED nEdits

(* load(): up to the opening of the temp file of the metadata *)
FilesLoadOpen(l) ==
    IF l.raised THEN NotWritten("load", l.s, TRUE)
    ELSE Opened("load", store, [l.s EXCEPT !.metaDisk = store.metaDisk], "meta", l.s.meta,
                "return", [fsx EXCEPT !.news = [name \in {"doc", "meta"} |-> None]])
FilesLoad ==
    /\ pc = "idle" /\ fsx.wpc = "idle"
    /\ store.uuids + IdlessCount(store.disk[1]) <= UuidLimit
    /\ FilesLoadOpen(load(store))
    /\ FilesUnchanged /\ UNCHANGED nEdits

(* set(path, value) on a loaded store, of a profile the schema accepts or  *)
(* rejects and of a member of a record                                     *)
FilesSetInputs == SubSeq(SetInputs, 1, 3)
FilesSet ==
    /\ pc = "idle" /\ fsx.wpc = "idle"
    /\ is_loaded(store)
    /\ nEdits < MaxEdits
    /\ \E i \in 1..Len(FilesSetInputs) :
          store' = set_path(store, FilesSetInputs[i].path, FilesSetInputs[i].value).s
    /\ fsx' = [fsx EXCEPT !.op = "set", !.returned = TRUE, !.raised = FALSE]
    /\ nEdits' = nEdits + 1
    /\ FilesUnchanged

(* json.dump writes the text to the open file *)
AtomicDump ==
    /\ fsx.wpc = "opened"
    /\ store' = Put(store, fsx.tmp, tmp_path(fsx.path), Partial(fsx.payload[1], 1)).s
    /\ fsx' = [fsx EXCEPT !.wpc = "dumped",
                          !.tmp = Put(store, fsx.tmp, tmp_path(fsx.path), Partial(fsx.payload[1], 1)).tmp]
    /\ FilesUnchanged /\ UNCHANGED nEdits

(* the final newline, flush, fsync and close *)
AtomicSync ==
    /\ fsx.wpc = "dumped"
    /\ store' = Put(store, fsx.tmp, tmp_path(fsx.path), Some(fsx.payload[1])).s
    /\ fsx' = [fsx EXCEPT !.wpc = "synced",
                          !.tmp = Put(store, fsx.tmp, tmp_path(fsx.path), Some(fsx.payload[1])).tmp]
    /\ FilesUnchanged /\ UNCHANGED nEdits

(* os.replace(tmp_path, path), and the caller up to its next write or its  *)
(* return: save() caches the hash, clears dirty and opens the temp file of *)
(* the metadata                                                            *)
SaveHashed(s) ==
    [s EXCEPT !.local_hash = Some(_compute_hash(s.corpus[1])),
              !.meta.local_hash = Some(_compute_hash(s.corpus[1])),
              !.dirty = FALSE]
Replaced(r) ==
    IF fsx.next = "save_meta"
    THEN Opened(fsx.op, fsx.before, SaveHashed(r.s), "meta", SaveHashed(r.s).meta, "return",
                [fsx EXCEPT !.tmp = r.tmp])
    ELSE /\ store' = r.s
         /\ fsx' = [fsx EXCEPT !.wpc = "idle", !.returned = TRUE, !.tmp = r.tmp]
AtomicReplace ==
    /\ fsx.wpc = "synced"
    /\ Replaced(os_replace(store, fsx.tmp, tmp_path(fsx.path), fsx.path))
    /\ FilesUnchanged /\ UNCHANGED nEdits

(* another process reads the document file or the metadata file *)
Reader ==
    /\ \E name \in {"doc", "meta"} :
          fsx' = [fsx EXCEPT !.seen =
                     <<[ name |-> name, content |-> FileAt(store, fsx.tmp, name),
                         old |-> FileAt(fsx.before, fsx.tmp, name), new |-> fsx.news[name],
                         writing |-> fsx.wpc # "idle" ]>>]
    /\ UNCHANGED <<store, nEdits>>
    /\ FilesUnchanged

InitFiles ==
    /\ store \in {NewStore(Some(doc), meta) : doc \in StoreFiles, meta \in {None, Some(SyncedMeta)}}
    /\ remote = [head |-> SyncedCommit]
    /\ now = 0
    /\ pc = "idle"
    /\ px = PxIdle
    /\ result = _base_result
    /\ calls = NoCalls
    /\ pushStart = IdleStore
    /\ nEdits = 0
    /\ nPushes = 0
    /\ nOther = 0
    /\ sync = [max_retries |-> 1, adapters |-> TRUE, patched_build |-> FALSE]
    /\ pullx = PullIdle
    /\ stx = StxIdle
    /\ fsx = [FsxIdle EXCEPT !.before = store]
    /\ boot = BootIdle

NextFiles ==
    \/ FilesLoad
    \/ FilesSave
    \/ FilesSet
    \/ AtomicDump
    \/ AtomicSync
    \/ AtomicReplace
    \/ Reader

SpecFiles == InitFiles /\ [][NextFiles]_vars
(* pull() and push() on one store: the remote is as the store knows it,   *)
(* holds the push of another store, or holds no memory files; pull() is   *)
(* answered faithfully, or by a 404 for the repository or for a section   *)
(* file                                                                    *)
FramePull ==
    /\ pc = "idle"
    /\ PullAnswered({"ok", "repo_404", "blob_404"})

InitFrame ==
    /\ store \in {NewStore(Some(file), Some(SyncedMeta)) : file \in {InitialCorpus, LegacyCorpus}}
    /\ remote \in {[head |-> c] : c \in {SyncedCommit, OtherCommit, EmptyCommit}}
    /\ now = 0
    /\ pc = "idle"
    /\ px = PxIdle
    /\ result = _base_result
    /\ calls = NoCalls
    /\ pushStart = IdleStore
    /\ nEdits = 0
    /\ nPushes = 0
    /\ nOther = 0
    /\ sync = [max_retries |-> 0, adapters |-> TRUE, patched_build |-> FALSE]
    /\ pullx = PullIdle
    /\ stx = StxIdle
    /\ fsx = FsxIdle
    /\ boot = BootIdle

NextFrame ==
    \/ Load \/ Set \/ FramePull
    \/ PushAll \/ GetMemoryRepo \/ GetBranchRef \/ GetParentCommit
    \/ CreateGitBlob \/ CreateGitTree \/ CreateGitCommit \/ UpdateBranchRef
    \/ VerifyGetGitCommit \/ VerifyGetGitTree \/ PushReturn

SpecFrame == InitFrame /\ [][NextFrame]_vars
(* the caller, holding the result of a push() that saved the document and  *)
(* did not persist it, calls push() again with the same arguments and      *)
(* without touching the store                                              *)
PushAgain ==
    /\ pc = "returned"
    /\ result.local_saved /\ ~result.persisted
    /\ nPushes <= MaxPushes
    /\ nPushes' = nPushes + 1
    /\ pushStart' = store
    /\ calls' = NoCalls
    /\ UNCHANGED <<remote, nOther, sync, boot, pullx, stx, fsx, nEdits>>
    /\ \E t \in {now, IF now < MaxClock THEN now + 1 ELSE now} :
          /\ now' = t
          /\ PushLoaded(px.target_sections, px.approved_sections, t, _ensure_loaded(store))

NextAgain ==
    \/ Load \/ Set \/ DeleteExperience
    \/ Push \/ GetMemoryRepo \/ GetBranchRef \/ GetParentCommit
    \/ CreateGitBlob \/ CreateGitTree \/ CreateGitCommit \/ UpdateBranchRef
    \/ VerifyGetGitCommit \/ VerifyGetGitTree \/ PushReturn
    \/ PushAgain

SpecAgain == Init /\ [][NextAgain]_vars

(* A turn of the assistant: bootstrap_memory_repo is called up to           *)
(* MaxBootstraps times, with the turn_state dict of the turn or without    *)
(* one; a turn starts with the dict empty or already marked.               *)
Count(seq, x) == Cardinality({i \in 1..Len(seq) : seq[i] = x})
Answered(made, k, response) == IF Len(made) >= k THEN response ELSE NoResponse
(* an adapter that is not called answers nothing: no call follows a first  *)
(* get that is not a 404                                                   *)
AnswersAfter(first) == IF _status_code(first) = Some(404) THEN Responses ELSE {NoResponse}
BootstrapCalled(shared, first, create_response, confirmed, out) ==
    /\ boot' = [ n |-> boot.n + 1,
                 turn_state |-> IF shared THEN out.turn_state ELSE boot.turn_state,
                 creates |-> boot.creates + (IF shared THEN Count(out.made, "create") ELSE 0),
                 shared |-> shared,
                 met |-> IF shared THEN boot.turn_state ELSE None,
                 first |-> first,
                 create_response |-> Answered(out.made, 2, create_response),
                 confirmed |-> Answered(out.made, 3, confirmed),
                 raised |-> out.raised, ret |-> out.ret, made |-> out.made ]
    /\ UNCHANGED <<store, remote, now, pc, px, result, calls, pushStart, nEdits, nPushes, nOther,
                   sync, pullx, stx, fsx>>
Bootstrap ==
    /\ boot.n < MaxBootstraps
    /\ \E shared \in BOOLEAN :
          \E first \in Responses :
          \E create_response \in AnswersAfter(first), confirmed \in AnswersAfter(first) :
             BootstrapCalled(shared, first, create_response, confirmed,
                             bootstrap_memory_repo(first, create_response, confirmed,
                                                   IF shared THEN boot.turn_state ELSE None))

InitBootstrap ==
    /\ store = IdleStore
    /\ remote = [head |-> SyncedCommit]
    /\ now = 0
    /\ pc = "idle"
    /\ px = PxIdle
    /\ result = _base_result
    /\ calls = NoCalls
    /\ pushStart = IdleStore
    /\ nEdits = 0
    /\ nPushes = 0
    /\ nOther = 0
    /\ sync = [max_retries |-> 1, adapters |-> TRUE, patched_build |-> FALSE]
    /\ pullx = PullIdle
    /\ stx = StxIdle
    /\ fsx = FsxIdle
    /\ boot \in {[BootIdle EXCEPT !.turn_state = Some(flag)] : flag \in BOOLEAN}

NextBootstrap == Bootstrap

SpecBootstrap == InitBootstrap /\ [][NextBootstrap]_vars

Next ==
    \/ Load \/ Save \/ Set \/ AppendExperience \/ DeleteExperience
    \/ Push \/ GetMemoryRepo \/ GetBranchRef \/ GetParentCommit
    \/ CreateGitBlob \/ CreateGitTree \/ CreateGitCommit \/ UpdateBranchRef
    \/ VerifyGetGitCommit \/ VerifyGetGitTree \/ PushReturn
    \/ OtherWriter

Spec == Init /\ [][Next]_vars

----------------------------------------------------------------------------
(* Properties of push().  A push() has returned when pc = "returned"; its  *)
(* arguments and locals are still in px, its result in result, the store   *)
(* it was entered with in pushStart.                                       *)

RemoteCalls == TotalCalls(Adapters)

(* the transport stored the tree it was asked for, and verification read it back *)
FaithfulTransport ==
    /\ px.new_tree_sha = NewTree(px.base_tree_sha, px.blob_shas, px.deleted_paths)
    /\ px.verify_tree_sha = px.new_tree_sha

(* the remote moved the branch to the commit of this push() *)
PointerAdvanced == remote.head = px.new_commit_sha

(* C1: push() on a loaded store that is not dirty, with no target sections, *)
(* calls no remote adapter, leaves the store and its files as they were,    *)
(* and returns ok, not pushed, persisted, reason not_dirty.                 *)
C1_NotDirtyPushIsNoOp ==
    (pc # "idle" /\ is_loaded(pushStart) /\ ~pushStart.dirty /\ px.target_sections = {})
        => /\ pc = "returned"
           /\ RemoteCalls = 0
           /\ store = pushStart
           /\ result.ok /\ ~result.pushed /\ result.persisted
           /\ result.reason = "not_dirty"

C1_Witness ==
    /\ pc = "returned" /\ is_loaded(pushStart) /\ ~pushStart.dirty /\ px.target_sections = {}
    /\ result.reason = "not_dirty" /\ RemoteCalls = 0

(* C2: with max_retries = 1, when the first pointer update is answered 409 *)
(* and the second is accepted (the transport being faithful), push() has    *)
(* run exactly two full attempts, each with its own reads, blobs, tree,     *)
(* commit and pointer update, and returns ok, pushed, persisted with        *)
(* retry_count = 1.                                                         *)
C2_ConflictThenAccepted ==
    Len(px.attempt_results) = 2 /\ px.attempt_results[1].reason = "ref_update_conflict"
    /\ px.attempt_results[2].ok /\ PointerAdvanced /\ FaithfulTransport
    /\ sync.max_retries = 1 /\ pc = "returned"

C2_RetryOnceThenSucceed ==
    C2_ConflictThenAccepted
        => /\ result.ok /\ result.pushed /\ result.persisted
           /\ result.retry_count = 1
           /\ calls["get_memory_repo"] = 2 /\ calls["get_branch_ref"] = 2
           /\ calls["create_git_blob"] = 2 * Len(px.changed_paths)
           /\ calls["create_git_tree"] = 2 /\ calls["create_git_commit"] = 2
           /\ calls["update_branch_ref"] = 2
           /\ calls["get_git_commit"] = 3 /\ calls["get_git_tree"] = 1

C2_Witness == C2_ConflictThenAccepted /\ result.persisted /\ result.retry_count = 1

(* C3: push() makes at most max_retries + 1 attempts; when every attempt  *)
(* ended in a retryable rejection it returns not ok, not pushed, not        *)
(* persisted, with the reason and error_code of the last attempt and        *)
(* retry_count = max_retries.                                               *)
C3_AllAttemptsRejected ==
    /\ pc = "returned" /\ px.attempt_results # <<>>
    /\ \A i \in 1..Len(px.attempt_results) : px.attempt_results[i].retryable

C3_BoundedRetries ==
    /\ pc # "idle"
          => /\ px.attempt <= sync.max_retries
             /\ Len(px.attempt_results) <= sync.max_retries + 1
             /\ calls["get_memory_repo"] <= sync.max_retries + 1
             /\ calls["update_branch_ref"] <= sync.max_retries + 1
    /\ C3_AllAttemptsRejected
          => /\ ~result.ok /\ ~result.pushed /\ ~result.persisted
             /\ result.reason = px.attempt_results[Len(px.attempt_results)].reason
             /\ result.error_code = px.attempt_results[Len(px.attempt_results)].error_code
             /\ result.retry_count = sync.max_retries
             /\ Len(px.attempt_results) = sync.max_retries + 1

C3_Witness ==
    /\ C3_AllAttemptsRejected /\ sync.max_retries = 1
    /\ \A i \in 1..2 : px.attempt_results[i].reason = "ref_update_conflict"
    /\ result.error_code = "ref_conflict"

(* what the tree read back during verification shows of this push() *)
ChangedPathWrong(tree) ==
    \E i \in 1..Len(px.changed_paths) :
        \/ px.changed_paths[i] \notin DOMAIN tree
        \/ tree[px.changed_paths[i]] # px.blob_shas[px.changed_paths[i]]
DeletedPathPresent(tree) ==
    \E i \in 1..Len(px.deleted_paths) : px.deleted_paths[i] \in DOMAIN tree

(* verification has read the tree of the new commit and push() returned *)
C4_TreeReadBack ==
    pc = "returned" /\ calls["get_git_tree"] = 1 /\ PointerAdvanced

(* C4: after an accepted pointer advance push() reads the tree of the new  *)
(* commit back; when a changed path is missing or names another object     *)
(* than the one its blob creation returned, or a deleted path is present,  *)
(* it returns not ok, pushed, not persisted, transport_corruption, the     *)
(* accepted attempt being its last one; otherwise verification passes.     *)
C4_VerificationDecides ==
    C4_TreeReadBack
        => /\ px.verify_tree_sha = px.new_commit_sha.tree
           /\ IF ChangedPathWrong(px.verify_tree_sha) \/ DeletedPathPresent(px.verify_tree_sha)
              THEN /\ ~result.ok /\ result.pushed /\ ~result.persisted
                   /\ result.error_code = "transport_corruption"
                   /\ ~result.verify_ok
                   /\ px.attempt_results[Len(px.attempt_results)].ok
                   /\ Len(px.attempt_results) = result.retry_count + 1
              ELSE result.verify_ok /\ result.verification.ok

C4_Witness ==
    /\ C4_TreeReadBack /\ DeletedPathPresent(px.verify_tree_sha)
    /\ ~ChangedPathWrong(px.verify_tree_sha)
    /\ result.error_code = "transport_corruption" /\ result.pushed

(* the remote sync metadata of the store *)
RemoteSyncFields ==
    { "remote_file_sha", "remote_blob_sha", "remote_commit_sha", "remote_branch",
      "remote_file_hashes", "last_push_utc", "last_push_method", "last_verified_utc" }
RemoteSyncMetadata(meta) == [f \in RemoteSyncFields |-> meta[f]]
RemoteSyncMetadataChanged ==
    \/ RemoteSyncMetadata(store.meta) # RemoteSyncMetadata(pushStart.meta)
    \/ RemoteSyncMetadata(_read_meta(store.metaDisk)) # RemoteSyncMetadata(_read_meta(pushStart.metaDisk))

(* C5: during and after a push() the remote sync metadata, in the store    *)
(* and in its metadata file, differs from what it was when push() was      *)
(* entered only if push() returned push_verified after a verification     *)
(* that passed; so every push() with persisted = false and every no-op     *)
(* push() leaves it unchanged.                                             *)
C5_MetadataOnlyOnVerified ==
    (pc # "idle" /\ RemoteSyncMetadataChanged)
        => /\ pc = "returned"
           /\ result.reason = "push_verified"
           /\ result.verify_ok /\ result.persisted /\ result.pushed

C5_Witness ==
    /\ pc = "returned" /\ result.reason = "push_verified" /\ RemoteSyncMetadataChanged
    /\ store.meta.remote_commit_sha = Some(px.new_commit_sha)

(* C6: every result of push() is consistent: persisted implies ok and      *)
(* verify_ok; not ok implies not persisted; remote_written implies         *)
(* local_saved; pushed without persisted only when the remote accepted the *)
(* write (moved the branch) and verification or the persist guard failed.  *)
C6_ResultConsistent ==
    pc = "returned"
        => /\ result.persisted => result.ok /\ result.verify_ok
           /\ ~result.ok => ~result.persisted
           /\ result.remote_written => result.local_saved
           /\ (result.pushed /\ ~result.persisted)
                 => /\ PointerAdvanced
                    /\ result.error_code \in {"transport_corruption", "persist_claim_invalid"}

(* the part of C6 that does not speak of the remote *)
C6_FlagsConsistent ==
    pc = "returned"
        => /\ result.persisted => result.ok /\ result.verify_ok
           /\ ~result.ok => ~result.persisted
           /\ result.remote_written => result.local_saved
           /\ (result.pushed /\ ~result.persisted)
                 => /\ result.remote_written
                    /\ result.error_code \in {"transport_corruption", "persist_claim_invalid"}

(* the section that owns a remote file; the manifest belongs to none *)
OwnerSection(path) ==
    IF path = INDEX_FILE THEN "manifest"
    ELSE IF path = PROFILE_FILE THEN "profile"
    ELSE IF path = CERTIFICATIONS_FILE THEN "certifications"
    ELSE IF path = EDUCATION_FILE THEN "education"
    ELSE IF path = METADATA_FILE THEN "metadata"
    ELSE IF startswith(path, EXPERIENCE_FILE_PREFIX) THEN "experience"
    ELSE "projects"

(* the changed and deleted paths of this push() owned by a section outside its targets *)
PathsOutsideTargets ==
    {path \in Range(px.changed_paths \o px.deleted_paths) :
        path # INDEX_FILE /\ OwnerSection(path) \notin px.target_sections}

(* an entry of the approval map that is true or {approved: true} *)
ExplicitlyApproved(section) ==
    /\ section \in DOMAIN px.approved_sections
    /\ px.approved_sections[section] \in {"true", "obj_approved"}

(* C7: a push() restricted to target sections whose diff holds a changed   *)
(* or deleted path of a section outside them returns not ok with           *)
(* unapproved_section_changes and has called no remote adapter.            *)
C7_OutsideChangesRejected ==
    (pc # "idle" /\ px.target_sections # {} /\ PathsOutsideTargets # {})
        => /\ pc = "returned"
           /\ ~result.ok /\ ~result.pushed /\ ~result.persisted
           /\ result.error_code = "unapproved_section_changes"
           /\ RemoteCalls = 0

C7_Witness ==
    /\ pc = "returned" /\ px.target_sections = {"education"}
    /\ PROFILE_FILE \in PathsOutsideTargets
    /\ result.error_code = "unapproved_section_changes" /\ RemoteCalls = 0

(* C8: a push() restricted to explicitly approved target sections whose    *)
(* changed and deleted paths are all the manifest or files of those        *)
(* sections is not rejected as unapproved_section_changes.                 *)
C8_OwnedChangesProceed ==
    ( /\ pc = "returned" /\ px.target_sections # {}
      /\ \A section \in px.target_sections : ExplicitlyApproved(section)
      /\ px.changed_paths \o px.deleted_paths # <<>>
      /\ PathsOutsideTargets = {} )
        => result.error_code # "unapproved_section_changes"

(* C9 as stated: a push() with a target section that lacks explicit        *)
(* approval returns approval_missing, has called no remote adapter, has    *)
(* not written the document file and has left the dirty flag as it was     *)
(* when push() was entered.                                                *)
C9_Unapproved ==
    /\ pc # "idle" /\ px.target_sections # {}
    /\ \E section \in px.target_sections : ~ExplicitlyApproved(section)

C9_DirtyFlagUntouched ==
    C9_Unapproved
        => /\ pc = "returned"
           /\ ~result.ok /\ result.error_code = "approval_missing"
           /\ RemoteCalls = 0
           /\ store.disk = pushStart.disk
           /\ store.dirty = pushStart.dirty

(* C9, amended: such a push() returns approval_missing, has called no      *)
(* remote adapter and has not written the document file; a store that was  *)
(* loaded is left exactly as it was, a store that was not has been loaded  *)
(* and is as load() leaves it, dirty flag included.                        *)
C9_ApprovalGate ==
    C9_Unapproved
        => /\ pc = "returned"
           /\ ~result.ok /\ ~result.pushed /\ ~result.persisted
           /\ result.error_code = "approval_missing"
           /\ RemoteCalls = 0
           /\ store.disk = pushStart.disk
           /\ store = _ensure_loaded(pushStart).s

C9_Witness ==
    /\ C9_Unapproved /\ pc = "returned" /\ result.error_code = "approval_missing"
    /\ px.target_sections = {"education", "profile"} /\ ExplicitlyApproved("education")
    /\ ~is_loaded(pushStart) /\ ~pushStart.dirty /\ store.dirty

(* validation of the dirty document fails: push() came to validate a      *)
(* document that the schema rejects                                        *)
C10_ValidationFails ==
    /\ pc # "idle"
    /\ \A section \in px.target_sections : ExplicitlyApproved(section)
    /\ sync.adapters
    /\ is_loaded(store) /\ _ensure_loaded(pushStart).s.dirty
    /\ ~validate_career_corpus(_ensure_loaded(pushStart).s.corpus[1])

(* C10: when validation of the dirty document fails push() returns not ok, *)
(* not persisted, validation_failed with validation_ran, has called no     *)
(* remote adapter, has not saved the document file, and the store is       *)
(* still dirty.                                                            *)
C10_ValidationFailureWritesNothing ==
    C10_ValidationFails
        => /\ pc = "returned"
           /\ ~result.ok /\ ~result.persisted /\ ~result.pushed
           /\ result.error_code = "validation_failed"
           /\ result.validation_ran /\ ~result.validated /\ ~result.local_saved
           /\ RemoteCalls = 0
           /\ store.disk = pushStart.disk
           /\ store.dirty

C10_Witness ==
    C10_ValidationFails /\ pc = "returned" /\ result.error_code = "validation_failed"

----------------------------------------------------------------------------
(* C11: local-first.  Whenever a push() has made, or is about to make, a   *)
(* call to a remote adapter, its local save has completed: the document    *)
(* file holds the in-memory document, the store is not dirty and the       *)
(* result says local_saved.                                                *)
C11_LocalFirst ==
    (InFlight \/ (pc # "idle" /\ RemoteCalls > 0))
        => /\ result.local_saved
           /\ is_loaded(store)
           /\ store.disk = store.corpus
           /\ ~store.dirty

(* the first remote call of a push() that had an edit to save *)
C11_Witness ==
    /\ pc = "get_memory_repo" /\ RemoteCalls = 0
    /\ pushStart.dirty /\ pushStart.disk # pushStart.corpus
    /\ store.disk = store.corpus /\ result.local_saved

----------------------------------------------------------------------------
(* The steps of one attempt, in program order, and the step at which an    *)
(* attempt that returned a given reason stopped (7: it ran to the end).    *)
AttemptSteps ==
    << "get_memory_repo", "get_branch_ref", "get_git_commit", "create_git_blob",
       "create_git_tree", "create_git_commit", "update_branch_ref" >>
StepNumber(step) == CHOOSE i \in 1..Len(AttemptSteps) : AttemptSteps[i] = step
StoppedAt(reason) ==
    IF reason \in {"memory_repo_not_found", "default_branch_missing"} THEN 1
    ELSE IF reason \in {"branch_ref_conflict", "branch_ref_not_found", "parent_commit_sha_missing"} THEN 2
    ELSE IF reason \in {"parent_commit_not_found", "base_tree_sha_missing"} THEN 3
    ELSE IF reason \in {"blob_rejected", "blob_sha_missing"} THEN 4
    ELSE IF reason \in {"tree_rejected", "new_tree_sha_missing"} THEN 5
    ELSE IF reason \in {"commit_rejected", "new_commit_sha_missing"} THEN 6
    ELSE 7

(* the number of attempts of this push(), the running one included, that   *)
(* made the call of step number k                                          *)
AttemptsThatReached(k) ==
    Cardinality({i \in 1..Len(px.attempt_results) : StoppedAt(px.attempt_results[i].reason) >= k})
    + (IF InFlight /\ pc \in Range(AttemptSteps) /\ StepNumber(pc) > k THEN 1 ELSE 0)

(* calls of get_git_commit made by verification, not by an attempt *)
VerifyCommitCalls == IF result.remote_written /\ pc # "verify_get_git_commit" THEN 1 ELSE 0
VerificationStarted ==
    pc \in {"verify_get_git_commit", "verify_get_git_tree"} \/ VerifyCommitCalls = 1

(* the calls of each step are exactly those of the attempts that got there *)
C12_CallsInOrder ==
    pc # "idle"
        => /\ RemoteCalls > 0 => (result.validation_ran /\ result.validated /\ result.local_saved
                                  /\ px.changed_paths \o px.deleted_paths # <<>>
                                  /\ (px.target_sections # {}
                                         => _disallowed_changed_paths(px.changed_paths, px.deleted_paths,
                                                                      px.target_sections) = {}))
           /\ result.error_code = "validation_failed" => ~result.local_saved
           /\ result.reason = "not_dirty" => ~result.validation_ran
           /\ ~result.local_saved => px.docs = <<>>
           /\ calls["get_memory_repo"] = AttemptsThatReached(1)
           /\ calls["get_branch_ref"] = AttemptsThatReached(2)
           /\ calls["get_git_commit"] = AttemptsThatReached(3) + VerifyCommitCalls
           /\ calls["create_git_tree"] = AttemptsThatReached(5)
           /\ calls["create_git_commit"] = AttemptsThatReached(6)
           /\ calls["update_branch_ref"] = AttemptsThatReached(7)
           /\ calls["create_git_blob"] >= AttemptsThatReached(5) * Len(px.changed_paths)
           /\ calls["create_git_blob"] <= AttemptsThatReached(3) * Len(px.changed_paths)
           /\ calls["get_git_tree"] <= VerifyCommitCalls
           /\ calls["get_git_blob"] = 0
           /\ VerificationStarted
                 => /\ px.attempt_results # <<>>
                    /\ px.attempt_results[Len(px.attempt_results)].ok
                    /\ calls["update_branch_ref"] > 0

(* C12: within one push() the steps run in order and stop at the first     *)
(* failure: the gates, the save, the build, the diff and the scope check   *)
(* precede every remote call; each attempt calls repository, branch,       *)
(* parent commit, one blob per changed path, tree, commit and pointer      *)
(* update in this order and makes no later call once a step failed; and    *)
(* verification reads only after a pointer update the remote accepted.     *)
C12_StepsInOrder ==
    /\ C12_CallsInOrder
    /\ VerificationStarted => PointerAdvanced

----------------------------------------------------------------------------
(* the pointer update of an attempt is built on what this attempt resolved *)
C13_ResolvedInThisAttempt ==
    pc = "update_branch_ref"
        => /\ calls["get_memory_repo"] = px.attempt + 1
           /\ calls["get_branch_ref"] = px.attempt + 1
           /\ px.base_tree_sha = px.parent_commit_sha.tree
           /\ px.new_commit_sha.parents = <<px.parent_commit_sha>>

(* the branch only ever moves to a commit whose parent is the head it had *)
C13_Advance == remote'.head # remote.head => remote'.head.parents = <<remote.head>>

(* C13: the branch pointer is advanced only when it still names the parent *)
(* commit the attempt resolved; after a foreign write the update is not    *)
(* applied, the retry resolves repository, branch, parent commit and base  *)
(* tree again, and the commit finally published has the then-current head  *)
(* as its parent, so that no commit of another writer leaves the branch.   *)
C13_NoLostCommit == [](C13_ResolvedInThisAttempt) /\ [][C13_Advance]_vars

(* another writer moved the branch between resolution and pointer update:  *)
(* the first update was refused, the retry published on top of its commit  *)
C13_Witness ==
    /\ pc = "returned" /\ nOther = 1 /\ Len(px.attempt_results) = 2
    /\ px.attempt_results[1].reason = "ref_update_conflict"
    /\ px.attempt_results[2].ok /\ PointerAdvanced
    /\ px.parent_commit_sha # SyncedCommit
    /\ px.parent_commit_sha.parents = <<SyncedCommit>>
    /\ remote.head.parents = <<px.parent_commit_sha>>

----------------------------------------------------------------------------
(* the per-path hashes of the section documents of doc, the manifest apart *)
SectionHashes(doc) ==
    [p \in DOMAIN SectionDocuments(doc) |-> canonical_json_sha256(SectionDocuments(doc)[p])]
RecordedSectionHashes(meta) ==
    [p \in DOMAIN meta.remote_file_hashes \ {INDEX_FILE} |-> meta.remote_file_hashes[p]]

(* push() came to its build with a dirty store whose document is the one   *)
(* of the last successful sync                                             *)
C15_DirtyButAsSynced ==
    /\ pc # "idle" /\ px.target_sections = {} /\ sync.adapters
    /\ is_loaded(store) /\ _ensure_loaded(pushStart).s.dirty
    /\ validate_career_corpus(store.corpus[1]) /\ assert_notes_content_only(store.corpus[1])
    /\ SectionHashes(normalize(_ensure_loaded(pushStart).s.corpus[1]))
          = RecordedSectionHashes(pushStart.meta)

(* C15: a dirty store whose document is the one of the last successful    *)
(* sync builds the recorded per-path hashes again, so push() finds no      *)
(* changed and no deleted path, returns ok, not pushed, persisted,         *)
(* hashes_unchanged, and makes no remote write.                            *)
C15_HashesUnchanged ==
    C15_DirtyButAsSynced
        => /\ pc = "returned"
           /\ px.changed_paths = <<>> /\ px.deleted_paths = <<>>
           /\ result.ok /\ ~result.pushed /\ result.persisted
           /\ result.reason = "hashes_unchanged"
           /\ TotalCalls(WriteAdapters) = 0

(* the same, for a build made at the clock reading of the recorded one *)
C15_HashesUnchangedSameInstant ==
    (C15_DirtyButAsSynced /\ px.docs # <<>>
       /\ px.docs[INDEX_FILE].generated_at_utc = pushStart.meta.last_push_utc[1])
        => /\ pc = "returned"
           /\ px.changed_paths = <<>> /\ px.deleted_paths = <<>>
           /\ result.reason = "hashes_unchanged"
           /\ TotalCalls(WriteAdapters) = 0

(* what the diff holds otherwise: the manifest alone *)
C15_ManifestAloneChanged ==
    (C15_DirtyButAsSynced /\ px.docs # <<>>
       /\ px.docs[INDEX_FILE].generated_at_utc # pushStart.meta.last_push_utc[1])
        => px.changed_paths = <<INDEX_FILE>> /\ px.deleted_paths = <<>>

----------------------------------------------------------------------------
(* Properties of pull().  pullx describes the last pull() made.            *)

(* the last pull() read the tree of the branch head and found the manifest *)
PullReadManifest ==
    /\ pullx.n > 0 /\ ~pullx.raised /\ pullx.calls["get_git_tree"] = 1
    /\ INDEX_FILE \in DOMAIN pullx.tree
PulledIndexSha == pullx.tree[INDEX_FILE]
PulledReferenced == index_referenced_paths(_read_blob_json(PulledIndexSha))

(* C16: a pull() that returns pulled has recorded the object id of the     *)
(* manifest as remote_file_sha; a pull(force=False) that finds the         *)
(* manifest under the recorded id returns ok, not changed, sha_unchanged,  *)
(* reads no blob and leaves the store as it was; a pull(force=True) never  *)
(* takes that short cut: when it finds every referenced file it reads the  *)
(* manifest and each of them and replaces the document.                    *)
C16_ShaUnchanged ==
    /\ (pullx.n > 0 /\ pullx.result.reason = "pulled")
          => /\ PullReadManifest
             /\ pullx.after.meta.remote_file_sha = Some(PulledIndexSha)
             /\ pullx.after.metaDisk = Some(pullx.after.meta)
             /\ pullx.result.remote_file_sha = Some(PulledIndexSha)
    /\ (PullReadManifest /\ ~pullx.force
          /\ pullx.before.meta.remote_file_sha = Some(PulledIndexSha))
          => /\ pullx.result.ok /\ ~pullx.result.changed
             /\ pullx.result.reason = "sha_unchanged"
             /\ pullx.calls["get_git_blob"] = 0
             /\ pullx.after = pullx.before
    /\ (PullReadManifest /\ pullx.force /\ FirstMissing(PulledReferenced, pullx.tree) = 0)
          => /\ pullx.result.ok /\ pullx.result.changed
             /\ pullx.result.reason = "pulled"
             /\ pullx.calls["get_git_blob"] = 1 + Len(PulledReferenced)
             /\ pullx.after.disk = pullx.after.corpus
             /\ pullx.after.meta.last_pull_utc # None
             /\ \A i \in 1..Len(PulledReferenced) :
                   pullx.tree[PulledReferenced[i]]
                      = git_blob_sha(canonical_json_text(
                            SectionDocuments(pullx.after.corpus[1])[PulledReferenced[i]]))

(* the second of two pulls against the same remote: the first recorded the *)
(* id of a manifest the store did not know, the second is a no-op          *)
C16_Witness ==
    /\ pullx.n = 2 /\ ~pullx.force /\ pullx.result.reason = "sha_unchanged"
    /\ pullx.before.meta.last_pull_utc # None
    /\ pullx.before.meta.remote_file_sha = Some(PulledIndexSha)
    /\ PulledIndexSha # SyncedTree[INDEX_FILE]
    /\ pullx.calls["get_git_blob"] = 0

(* the last pull() read a tree of the branch head without a manifest entry *)
PullFoundNoManifest ==
    /\ pullx.n > 0 /\ ~pullx.raised /\ pullx.calls["get_git_tree"] = 1
    /\ INDEX_FILE \notin DOMAIN pullx.tree

PullFoundLegacyRootOnly ==
    /\ pullx.n > 0 /\ ~pullx.raised /\ pullx.calls["get_git_tree"] = 1
    /\ pullx.tree = TreeOf(LegacyRootDocs)

(* C18: a pull() that reads a tree holding only a root-level split layout  *)
(* returns ok false and error_code canonical_layout_missing and does not   *)
(* load the root-level files.                                              *)
C18_CanonicalLayoutMissing ==
    PullFoundLegacyRootOnly
       => /\ ~pullx.result.ok
          /\ pullx.result.error_code = "canonical_layout_missing"
          /\ pullx.calls["get_git_blob"] = 0
          /\ pullx.after = pullx.before

(* what the code does with such a tree: the plain remote_missing answer *)
C18_LegacyRootIsRemoteMissing ==
    PullFoundLegacyRootOnly
       => /\ pullx.result = PullResult(TRUE, FALSE, "remote_missing", "api_404", None, None)
          /\ pullx.calls["get_git_blob"] = 0
          /\ pullx.after = pullx.before

(* the last pull() fetched the manifest, and the manifest references a     *)
(* path the tree does not hold                                             *)
PullFetchedManifestWithMissingFile ==
    /\ PullReadManifest
    /\ pullx.calls["get_git_blob"] >= 1
    /\ FirstMissing(PulledReferenced, pullx.tree) # 0

(* C19: a pull() that fetched a manifest referencing a path absent from    *)
(* the tree returns ok false, changed false, reason split_file_missing,    *)
(* and leaves the document in memory, the document on disk and the sync    *)
(* metadata (remote pointer, hash map) in memory and on disk as they were. *)
C19_SplitFileMissing ==
    PullFetchedManifestWithMissingFile
       => /\ ~pullx.result.ok /\ ~pullx.result.changed
          /\ pullx.result.reason = "split_file_missing"
          /\ pullx.result.error_code = "transport_corruption"
          /\ pullx.after.corpus = pullx.before.corpus
          /\ pullx.after.disk = pullx.before.disk
          /\ pullx.after.meta = pullx.before.meta
          /\ pullx.after.metaDisk = pullx.before.metaDisk
          /\ pullx.after = pullx.before
          /\ pullx.calls["get_git_blob"] = FirstMissing(PulledReferenced, pullx.tree)

(* a core section file of a manifest the store did not know is missing;    *)
(* the files referenced before it were fetched                            *)
C19_Witness ==
    /\ PullFetchedManifestWithMissingFile
    /\ METADATA_FILE \notin DOMAIN pullx.tree
    /\ PulledIndexSha # SyncedTree[INDEX_FILE]
    /\ ~pullx.force
    /\ pullx.calls["get_git_blob"] > 1
    /\ is_loaded(pullx.before) /\ pullx.before.dirty
    /\ ~pullx.result.ok

----------------------------------------------------------------------------
(* Properties of two store instances pushing to one branch (SpecTwo).      *)

(* the experience records held by the files of a tree *)
ExperienceRecordsOf(tree) ==
    {_read_blob_json(tree[p]).experience :
        p \in {q \in DOMAIN tree : startswith(q, EXPERIENCE_FILE_PREFIX)}}

(* This push() started from the state both instances were synced at, lost  *)
(* the pointer update to the push() of the other instance, was accepted on *)
(* the retry on top of the other's commit and verified; then a pull() read *)
(* the tree of its commit and replaced the document.                       *)
BothPushedThenPulled ==
    /\ pc = "returned" /\ result.ok /\ result.persisted
    /\ result.retry_count = 1
    /\ nOther = 1
    /\ pushStart.meta.remote_file_sha = Some(SyncedTree[INDEX_FILE])
    /\ px.parent_commit_sha # SyncedCommit
    /\ remote.head = px.new_commit_sha
    /\ pullx.n > 0 /\ pullx.result.reason = "pulled"
    /\ pullx.tree = px.new_commit_sha.tree
    /\ store = pullx.after

(* every section file this push() wrote is a section of the document *)
OwnEditsIn(doc) ==
    \A p \in Range(px.changed_paths) \ {INDEX_FILE} :
        /\ p \in DOMAIN SectionDocuments(doc)
        /\ SectionDocuments(doc)[p] = px.docs[p]

(* every experience record of the commit of the other instance is a record *)
(* of the document                                                         *)
OtherEditsIn(doc) ==
    ExperienceRecordsOf(px.parent_commit_sha.tree) \subseteq Range(doc.experience)

(* C14: when this instance and another, synced at the same state, changed  *)
(* different records, the other pushed first and this one was accepted     *)
(* through the conflict retry, a pull() that follows yields a document     *)
(* holding the edits of both.                                              *)
C14_BothEditsPulled ==
    BothPushedThenPulled
       => /\ OwnEditsIn(store.corpus[1])
          /\ OtherEditsIn(store.corpus[1])

(* it does so when the other instance edited a record both already had *)
C14_EditOfKnownRecordPulled ==
    (BothPushedThenPulled /\ ExperiencePath("exp_o1") \notin DOMAIN px.parent_commit_sha.tree)
       => /\ OwnEditsIn(store.corpus[1])
          /\ OtherEditsIn(store.corpus[1])
          /\ [id |-> "exp_a", v |-> 2] \in Range(store.corpus[1].experience)

(* a record the other instance added stays in the tree as a file no        *)
(* manifest lists, and is not in the document pulled                       *)
C14_AddedRecordDropped ==
    (BothPushedThenPulled /\ ExperiencePath("exp_o1") \in DOMAIN px.parent_commit_sha.tree)
       => /\ OwnEditsIn(store.corpus[1])
          /\ ExperiencePath("exp_o1") \in DOMAIN pullx.tree
          /\ ExperiencePath("exp_o1") \notin Range(PulledReferenced)
          /\ \A i \in 1..Len(store.corpus[1].experience) : store.corpus[1].experience[i].id # "exp_o1"

C14_BothPushedThenPulledReached ==
    /\ BothPushedThenPulled
    /\ ExperiencePath("exp_o1") \notin DOMAIN px.parent_commit_sha.tree
    /\ ExperiencePath("exp_u1") \in Range(px.changed_paths)

----------------------------------------------------------------------------
(* Properties of the remote layout (SpecLayout).                           *)

(* the path lies in the directory REMOTE_DIR *)
InRemoteDir(path) == startswith(path, <<REMOTE_DIR, "/">>)

(* the build this push() made has a path outside REMOTE_DIR *)
NonCanonicalBuild ==
    /\ pc # "idle"
    /\ DOMAIN px.docs # {}
    /\ \E path \in DOMAIN px.docs : ~InRemoteDir(path)

(* C20: a push() whose build has a path outside CareerCorpus/ (the single  *)
(* aggregate file career_corpus.json is one) returns not ok with           *)
(* error_code canonical_layout_violation and has called no remote adapter, *)
(* create_git_blob in particular; and every path a push() that returns ok  *)
(* and pushed has written to the remote tree lies in CareerCorpus/.        *)
C20_CanonicalLayoutOnly ==
    /\ NonCanonicalBuild
          => /\ pc = "returned"
             /\ ~result.ok
             /\ result.error_code = "canonical_layout_violation"
             /\ RemoteCalls = 0
             /\ calls["create_git_blob"] = 0
    /\ (pc = "returned" /\ result.ok /\ result.pushed)
          => \A path \in Range(px.changed_paths) : InRemoteDir(path)

(* with the build_split_documents of the store itself every path of the    *)
(* build, of the diff and of the remote tree lies in CareerCorpus/         *)
C20_OwnBuildIsCanonical ==
    ~sync.patched_build
       => /\ \A path \in DOMAIN px.docs : InRemoteDir(path)
          /\ \A path \in Range(px.changed_paths \o px.deleted_paths) : InRemoteDir(path)
          /\ \A path \in DOMAIN remote.head.tree : InRemoteDir(path)

(* what the code does with the aggregate build: it is pushed and verified, *)
(* and the files of the directory are deleted from the remote tree         *)
C20_AggregatePushed ==
    /\ NonCanonicalBuild
    /\ pc = "returned" /\ result.ok /\ result.pushed /\ result.persisted
    /\ calls["create_git_blob"] = 1
    /\ DOMAIN remote.head.tree = {LEGACY_AGGREGATE_FILE}

----------------------------------------------------------------------------
(* Properties of the split codec (SpecCodec).                              *)

(* the ids of the records of the list, one per record *)
IdsOf(records) == [i \in 1..Len(records) |-> records[i].id]
DistinctIds(records) ==
    \A i, j \in 1..Len(records) : records[i].id = records[j].id => i = j

(* C21: assemble_from_split_documents applied to the manifest and the      *)
(* section documents build_split_documents made of a valid document does   *)
(* not raise and returns the document: the same profile, metadata,         *)
(* certifications and education, and the same experience and project       *)
(* records in the same order.                                              *)
C21_RoundTrip ==
    stx.op = "round_trip"
       => /\ ~stx.raised
          /\ stx.ret = Some(stx.arg[1])

(* the round trip does return the document when no two experience records  *)
(* and no two project records of it have one id                            *)
C21_RoundTripDistinctIds ==
    (/\ stx.op = "round_trip"
     /\ DistinctIds(stx.arg[1].experience)
     /\ DistinctIds(stx.arg[1].projects))
       => /\ ~stx.raised
          /\ stx.ret = Some(stx.arg[1])

(* of two experience records with one id the round trip returns the later  *)
(* one twice: the order and the number of records are kept, the content of *)
(* the earlier record is lost                                              *)
C21_SharedIdLosesRecord ==
    (/\ stx.op = "round_trip"
     /\ Len(stx.arg[1].experience) = 2
     /\ stx.arg[1].experience[1].id = stx.arg[1].experience[2].id)
       => /\ ~stx.raised
          /\ stx.ret[1].experience = <<stx.arg[1].experience[2], stx.arg[1].experience[2]>>

C21_SharedIdReached ==
    /\ stx.op = "round_trip"
    /\ Len(stx.arg[1].experience) = 2
    /\ stx.arg[1].experience[1] = [id |-> "exp_a", v |-> 0]
    /\ stx.arg[1].experience[2] = [id |-> "exp_a", v |-> 1]
    /\ stx.ret # Some(stx.arg[1])

----------------------------------------------------------------------------
(* Claims about the store called directly                                  *)

(* a second load() in a row that returned, of a file whose records all     *)
(* have an id                                                              *)
LoadedTwice ==
    /\ stx.op = "load" /\ stx.prev = "load" /\ ~stx.raised
    /\ IdlessCount(stx.after.disk[1]) = 0
InNormalForm(doc) == normalize(doc) = doc

C22_LoadedTwiceUnnormalised == LoadedTwice /\ ~InNormalForm(stx.after.disk[1])

(* a load() that returned *)
LoadReturned == stx.op = "load" /\ ~stx.raised
LoadAssignedIds == stx.after.uuids # stx.before.uuids

C23_LoadAssignedIds == LoadReturned /\ LoadAssignedIds /\ InNormalForm(stx.after.disk[1])
C23_LoadChangedNothing == LoadReturned /\ ~LoadAssignedIds /\ ~stx.after.dirty

(* a save() of a store that is loaded and not dirty *)
SavedClean == stx.op = "save" /\ is_loaded(stx.before) /\ ~stx.before.dirty

(* C26: save() of a loaded store that is not dirty does nothing: it does   *)
(* not validate (so it cannot raise), writes neither file and leaves the   *)
(* cached hash as it was.                                                  *)
C26_SaveNotDirtyIsNoOp == SavedClean => ~stx.raised /\ stx.after = stx.before

(* such a save of a document validation would have rejected *)
C26_SavedCleanInvalid == SavedClean /\ ~validate(stx.before)

(* an update() of a loaded store that returned *)
Updated == stx.op = "update" /\ is_loaded(stx.before) /\ ~stx.raised
UpdateChangedHash ==
    _compute_hash(stx.after.corpus[1]) # _compute_hash(stx.before.corpus[1])

(* C27: update() leaves dirty true and the cached hash that of the new     *)
(* document when the hash after the mutator and the id re-assignment       *)
(* differs from the hash before; when it does not differ, the dirty flag   *)
(* and the cached hash are exactly as they were.                           *)
C27_UpdateDirtyIffHashChanged ==
    Updated =>
        IF UpdateChangedHash
        THEN /\ stx.after.dirty
             /\ stx.after.local_hash = Some(_compute_hash(stx.after.corpus[1]))
        ELSE /\ stx.after.dirty = stx.before.dirty
             /\ stx.after.local_hash = stx.before.local_hash

C27_UpdatedUnchangedClean == Updated /\ ~UpdateChangedHash /\ ~stx.before.dirty
C27_UpdatedUnchangedDirty == Updated /\ ~UpdateChangedHash /\ stx.before.dirty
C27_UpdatedChanged == Updated /\ UpdateChangedHash /\ ~stx.before.dirty

(* a set() on a loaded store, its path and its value *)
SetCalled == stx.op = "set" /\ is_loaded(stx.before)
SetPath == SetInputs[stx.arg[1]].path
SetValue == SetInputs[stx.arg[1]].value
(* every segment of the path exists in the document *)
SetPathResolves ==
    SetPath # <<>> /\ get_in(stx.before.corpus[1], "doc", SetPath).found
(* the container the path leads to, and whether it takes the last segment: *)
(* a dict takes any key, a list an index in range                          *)
SetParent == get_in(stx.before.corpus[1], "doc", SubSeq(SetPath, 1, Len(SetPath) - 1))
SetPathAssignable ==
    /\ SetPath # <<>>
    /\ SetParent.found
    /\ CanAssign(SetParent.node, SetParent.kind, SetPath[Len(SetPath)])
SetDone ==
    /\ ~stx.raised
    /\ get_in(stx.after.corpus[1], "doc", SetPath).found
    /\ get_in(stx.after.corpus[1], "doc", SetPath).node = SetValue
    /\ stx.after.dirty
    /\ stx.after.local_hash = Some(_compute_hash(stx.after.corpus[1]))
SetRefused == stx.raised /\ stx.after = stx.before

C28_SetReplaced == SetCalled /\ SetPathResolves /\ ~stx.raised /\ ~stx.before.dirty
C28_SetRaised == SetCalled /\ stx.raised /\ SetPath # <<>> /\ stx.before.dirty

(* C29: every record of experience, projects, certifications and education *)
(* of a loaded store has a non-empty id.                                   *)
C29_RecordsHaveIds == is_loaded(store) => IdlessCount(store.corpus[1]) = 0

(* C29 holds after every call but set() *)
C29_RecordsHaveIdsUnlessSet ==
    (is_loaded(stx.after) /\ stx.op \notin {"none", "set"}
     /\ (is_loaded(stx.before) => IdlessCount(stx.before.corpus[1]) = 0))
        => IdlessCount(stx.after.corpus[1]) = 0
C29_IdAssigned ==
    /\ stx.op \in {"update", "replace_corpus", "load"}
    /\ stx.after.uuids # stx.before.uuids

(* an upsert_experience() on a loaded store, its record and its matcher,   *)
(* and the experience list before and after                                *)
Upserted == stx.op = "upsert_experience" /\ is_loaded(stx.before) /\ ~stx.raised
UpsertItem == UpsertItems[stx.arg[1]]
UpsertMatcher == UpsertMatchers[stx.arg[2]]
ExpBefore == stx.before.corpus[1].experience
ExpAfter == stx.after.corpus[1].experience
ItemHasId == "id" \in DOMAIN UpsertItem /\ UpsertItem.id # ""
ItemHasTriple == {"employer", "title", "start_date"} \subseteq DOMAIN UpsertItem
AcceptedByMatcher(rec) ==
    IF UpsertMatcher.kind = "dict"
    THEN \A k \in DOMAIN UpsertMatcher.fields :
            k \in DOMAIN rec /\ rec[k] = UpsertMatcher.fields[k]
    ELSE IF UpsertMatcher.kind = "callable" THEN Accepts(UpsertMatcher.name, rec)
    ELSE FALSE
EqualOnTriple(rec) ==
    /\ ItemHasTriple
    /\ \A k \in {"employer", "title", "start_date"} : k \in DOMAIN rec /\ rec[k] = UpsertItem[k]
Least(S) == CHOOSE i \in S : \A j \in S : i <= j
WithSameId == {i \in 1..Len(ExpBefore) : ItemHasId /\ ExpBefore[i].id = UpsertItem.id}
WithMatch == {i \in 1..Len(ExpBefore) : AcceptedByMatcher(ExpBefore[i])}
WithTriple == {i \in 1..Len(ExpBefore) : EqualOnTriple(ExpBefore[i])}
(* the record the resolution order of the claim picks, 0 for none *)
Resolved ==
    IF WithSameId # {} THEN Least(WithSameId)
    ELSE IF WithMatch # {} THEN Least(WithMatch)
    ELSE IF WithTriple # {} THEN Least(WithTriple)
    ELSE 0
(* rec holds what the incoming record holds, its id apart when it has none *)
HoldsItem(rec) ==
    \A k \in DOMAIN UpsertItem :
        (k # "id" \/ ItemHasId) => (k \in DOMAIN rec /\ rec[k] = UpsertItem[k])
UpdatedInPlace(idx) ==
    /\ Len(ExpAfter) = Len(ExpBefore)
    /\ \A i \in 1..Len(ExpBefore) : i # idx => ExpAfter[i] = ExpBefore[i]
    /\ HoldsItem(ExpAfter[idx])
    /\ \A k \in DOMAIN ExpBefore[idx] \ DOMAIN UpsertItem :
          k \in DOMAIN ExpAfter[idx] /\ ExpAfter[idx][k] = ExpBefore[idx][k]
    /\ ~ItemHasId => ExpAfter[idx].id = ExpBefore[idx].id
    /\ stx.ret = <<ExpAfter[idx].id>>
Appended ==
    /\ Len(ExpAfter) = Len(ExpBefore) + 1
    /\ SubSeq(ExpAfter, 1, Len(ExpBefore)) = ExpBefore
    /\ HoldsItem(ExpAfter[Len(ExpAfter)])
    /\ ExpAfter[Len(ExpAfter)].id # ""
    /\ stx.ret = <<ExpAfter[Len(ExpAfter)].id>>

(* C30: upsert_experience resolves the incoming record to the record with  *)
(* its id; else to the first record the caller's matcher accepts; else,    *)
(* when the incoming record has employer, title and start_date, to the     *)
(* first record equal on the three; the record found is updated in place   *)
(* and the list keeps its length (so for an incoming record without id     *)
(* that matches on the triple); when none is found the record is appended. *)
C30_UpsertResolutionOrder ==
    Upserted => IF Resolved = 0 THEN Appended ELSE UpdatedInPlace(Resolved)

C30_IdBeatsMatcher ==
    Upserted /\ WithSameId # {} /\ WithMatch # {} /\ Least(WithSameId) # Least(WithMatch)
C30_MatcherBeatsTriple ==
    Upserted /\ WithSameId = {} /\ WithMatch # {} /\ WithTriple # {}
    /\ Least(WithMatch) # Least(WithTriple)
C30_TripleWithoutId ==
    Upserted /\ ~ItemHasId /\ WithMatch = {} /\ WithTriple # {} /\ Len(ExpBefore) = 2
C30_NoneFound == Upserted /\ Resolved = 0 /\ ExpBefore # <<>>

(* a save() of a dirty store has returned *)
SaveReturned == fsx.op = "save" /\ fsx.returned /\ fsx.before.dirty

(* C24: when save() has returned on a dirty store, no temp file exists,    *)
(* dirty is false and the canonical hash of the document on disk is the    *)
(* cached hash of the document in memory.                                  *)
C24_SavedAtomically ==
    SaveReturned =>
        /\ fsx.tmp[DOC_TMP] = None /\ fsx.tmp[META_TMP] = None
        /\ ~store.dirty
        /\ IsComplete(store.disk)
        /\ store.local_hash = Some(_compute_hash(store.disk[1]))
        /\ store.local_hash = Some(_compute_hash(store.corpus[1]))

C24_SaveReturnedNewContent == SaveReturned /\ store.disk # fsx.before.disk

(* the steps of a call leave what the call as a whole leaves *)
FilesAgreeWithCalls ==
    (fsx.returned /\ fsx.wpc = "idle") =>
        /\ fsx.op = "save" => store = save(fsx.before).s
        /\ fsx.op = "load" => store = load(fsx.before).s

(* C25: a process that reads the document file or the metadata file while  *)
(* the store writes sees the whole old content or the whole new content,   *)
(* never a part of one; a temp file is what is written to.                 *)
C25_ReaderSeesOldOrNew ==
    fsx.seen # <<>> =>
        /\ fsx.seen[1].content = None \/ IsComplete(fsx.seen[1].content)
        /\ fsx.seen[1].content \in {fsx.seen[1].old, fsx.seen[1].new}
C25_TargetsNeverPartial ==
    /\ store.disk = None \/ IsComplete(store.disk)
    /\ store.metaDisk = None \/ IsComplete(store.metaDisk)

C25_ReadDuringWrite ==
    /\ fsx.seen # <<>> /\ fsx.seen[1].writing
    /\ fsx.wpc = "dumped" /\ ~IsComplete(fsx.tmp[tmp_path(fsx.path)])
C25_ReadNewDuringSave ==
    /\ fsx.seen # <<>> /\ fsx.seen[1].writing /\ fsx.seen[1].name = "doc"
    /\ fsx.seen[1].content # fsx.seen[1].old

(* an upsert_experience() that found a record *)
UpsertMatched == Upserted /\ Resolved # 0
(* the shallow merge: the fields of the incoming record, its id apart when *)
(* it has none, over those of the record found                             *)
IsShallowMerge(rec, existing) ==
    /\ HoldsItem(rec)
    /\ \A k \in DOMAIN existing \ DOMAIN UpsertItem : k \in DOMAIN rec /\ rec[k] = existing[k]

(* C31: when upsert_experience finds a record, by id, by matcher or by the *)
(* fallback triple, the record stored is the shallow merge in which the    *)
(* incoming fields win, its id is the id the record had before the call,   *)
(* and that id is returned.                                                *)
C31_MergeKeepsExistingId ==
    UpsertMatched =>
        /\ IsShallowMerge(ExpAfter[Resolved], ExpBefore[Resolved])
        /\ ExpAfter[Resolved].id = ExpBefore[Resolved].id
        /\ stx.ret = <<ExpBefore[Resolved].id>>

(* the merge is shallow and the id of the stored record is returned; the   *)
(* id is the one the record had when the incoming record has none or was   *)
(* found by its id                                                         *)
C31_MergeReturnsStoredId ==
    UpsertMatched =>
        /\ IsShallowMerge(ExpAfter[Resolved], ExpBefore[Resolved])
        /\ stx.ret = <<ExpAfter[Resolved].id>>
        /\ (~ItemHasId \/ WithSameId # {}) => ExpAfter[Resolved].id = ExpBefore[Resolved].id
C31_MatchedWithOtherId ==
    UpsertMatched /\ ItemHasId /\ WithSameId = {} /\ ExpAfter[Resolved].id = UpsertItem.id

(* C40: the ids of the experience records stay pairwise distinct under     *)
(* append_experience, upsert_experience and delete_experience, so that     *)
(* build_split_documents writes one section file per record.               *)
C40_ExperienceIdsDistinct ==
    is_loaded(store) =>
        /\ DistinctIds(store.corpus[1].experience)
        /\ Cardinality(ExperiencePaths(store.corpus[1]))
             = Len(store.corpus[1].experience)

(* upsert_experience and delete_experience keep distinct ids distinct *)
C40_DistinctUnlessAppended ==
    (stx.op \in {"upsert_experience", "delete_experience"} /\ ~stx.raised
     /\ DistinctIds(stx.before.corpus[1].experience))
        => DistinctIds(stx.after.corpus[1].experience)
C40_AppendedKnownId ==
    /\ stx.op = "append_experience"
    /\ ~DistinctIds(stx.after.corpus[1].experience)

(* push() returned persisted with reason push_verified *)
PushVerified == pc = "returned" /\ result.persisted /\ result.reason = "push_verified"

(* C35: when push() returns persisted with reason push_verified, the       *)
(* branch of the remote points at the commit reported as remote_commit_sha, *)
(* whatever update_branch_ref answered.                                     *)
C35_VerifiedMeansPointerAdvanced ==
    PushVerified => remote.head = result.remote_commit_sha[1]

(* a push() verified although no update moved the branch to its commit *)
C35_VerifiedWithoutAdvance == PushVerified /\ ~PointerAdvanced

(* the commits reachable from a commit *)
RECURSIVE Reachable(_)
Reachable(commit) ==
    {commit} \cup UNION {Reachable(commit.parents[i]) : i \in 1..Len(commit.parents)}

(* push() returned pushed = false *)
NotPushed == pc = "returned" /\ ~result.pushed
(* a step of push() (it calls an adapter) that moves the branch *)
PushMovesBranch == calls' # calls /\ remote'.head # remote.head

(* C37: against a remote that answers as it acts, a push() that returns    *)
(* pushed = false has not moved the branch: no attempt of it succeeded,    *)
(* the only step of push() that moves the branch is the pointer update of  *)
(* an attempt that succeeds, and the commit a failed attempt created is    *)
(* not reachable from the branch.                                          *)
C37_NotPushedState ==
    NotPushed =>
        /\ \A i \in 1..Len(px.attempt_results) : ~px.attempt_results[i].ok
        /\ px.new_commit_sha # RootCommit => px.new_commit_sha \notin Reachable(remote.head)
C37_BranchMovedBySuccess ==
    PushMovesBranch =>
        /\ pc = "update_branch_ref" /\ pc' = "verify_get_git_commit"
        /\ remote'.head = px.new_commit_sha
        /\ px'.attempt_results[Len(px'.attempt_results)].ok
C37_NotPushedNotMoved == [](C37_NotPushedState) /\ [][C37_BranchMovedBySuccess]_vars

C37_Witness ==
    /\ NotPushed /\ px.new_commit_sha # RootCommit
    /\ result.reason = "ref_update_conflict" /\ nOther > 0

(* what an attempt that failed returned, by the answer that ended it *)
RejectionReasons ==
    { "ref_update_conflict", "ref_update_rejected", "branch_ref_conflict",
      "blob_rejected", "tree_rejected", "commit_rejected" }
NotFoundReasons ==
    { "memory_repo_not_found", "branch_ref_not_found", "parent_commit_not_found",
      "ref_update_not_found" }
(* this step ends an attempt that failed; FailedAttempt is what it returned *)
AttemptEndsFailed ==
    /\ Len(px'.attempt_results) = Len(px.attempt_results) + 1
    /\ ~px'.attempt_results[Len(px'.attempt_results)].ok
FailedAttempt == px'.attempt_results[Len(px'.attempt_results)]
FreshAttempt ==
    /\ pc' = "get_memory_repo"
    /\ px' = [AttemptLocals(px, px.attempt + 1) EXCEPT !.attempt_results = px'.attempt_results]
    /\ remote' = remote /\ store' = store
GivenUp ==
    /\ pc' = "returned"
    /\ ~result'.ok /\ ~result'.pushed /\ ~result'.persisted
    /\ result'.reason = FailedAttempt.reason /\ result'.error_code = FailedAttempt.error_code
    /\ result'.retry_count = px.attempt

(* C33: an attempt ended by a rejected pointer update (409, 422), by a 409 *)
(* while the branch is resolved, or by a 422 while a blob, the tree or the *)
(* commit is created is followed by a fresh attempt that starts at         *)
(* get_memory_repo, as long as the retry bound allows one; an attempt      *)
(* ended by a 404 (repository, branch, parent commit, pointer update) ends *)
(* the push at once.                                                       *)
C33_Step ==
    AttemptEndsFailed =>
        /\ FailedAttempt.reason \in RejectionReasons
              => IF px.attempt < sync.max_retries THEN FreshAttempt ELSE GivenUp
        /\ FailedAttempt.reason \in NotFoundReasons
              => GivenUp /\ FailedAttempt.error_code = "api_404"
C33_RetryOnRejectionOnly == [][C33_Step]_vars

C33_Witness ==
    /\ pc = "returned" /\ Len(px.attempt_results) = 2
    /\ px.attempt_results[1].reason = "commit_rejected"
    /\ px.attempt_results[2].reason = "ref_update_not_found"
    /\ calls["get_memory_repo"] = 2 /\ result.retry_count = 1
C33_NotFoundFirst ==
    /\ pc = "returned" /\ Len(px.attempt_results) = 1 /\ sync.max_retries = 1
    /\ px.attempt_results[1].reason = "branch_ref_not_found"

----------------------------------------------------------------------------
(* The document of the store under pull() and push()                       *)

(* the last pull() returned a result (it did not raise) *)
PullReturned == pullx.n > 0 /\ ~pullx.raised
PullReplacedDocument == PullReturned /\ pullx.result.reason = "pulled"
PullLeftDocument == PullReturned /\ pullx.result.reason # "pulled"

(* the document assemble_from_split_documents makes of the manifest of the *)
(* pulled tree and the files it references, as replace_corpus stores it    *)
PulledDocuments == [p \in Range(PulledReferenced) |-> _read_blob_json(pullx.tree[p])]
PulledAssembled ==
    assemble_from_split_documents(_read_blob_json(PulledIndexSha), PulledDocuments)
IsRemoteDocument(doc) ==
    /\ PullReadManifest
    /\ FirstMissing(PulledReferenced, pullx.tree) = 0
    /\ ~PulledAssembled.raised
    /\ doc = _ensure_ids_for_known_lists(normalize(PulledAssembled.corpus[1]),
                                         pullx.before.uuids).doc

(* a push() has ended and the caller has not yet taken its outcome *)
PushEnded == pc \in {"returned", "raised"}

(* what load() and save() make of a document: normal form, ids assigned *)
StoreNormalised(doc, k) == _ensure_ids_for_known_lists(normalize(doc), k).doc

C39_PullPart ==
    /\ PullReplacedDocument
          => /\ pullx.result.changed
             /\ pullx.after.corpus # None
             /\ IsRemoteDocument(pullx.after.corpus[1])
             /\ pullx.after.disk = pullx.after.corpus
             /\ (pullx.force
                   \/ pullx.before.meta.remote_file_sha # Some(PulledIndexSha))
    /\ PullLeftDocument
          => /\ ~pullx.result.changed
             /\ pullx.after.corpus = pullx.before.corpus
             /\ pullx.after.disk = pullx.before.disk

C39_PushNormalised ==
    /\ PushEnded
    /\ pushStart.corpus # None
    /\ store.corpus # pushStart.corpus
    /\ store.corpus = Some(normalize(pushStart.corpus[1]))

----------------------------------------------------------------------------
(* Deletions under push()                                                  *)

(* the paths the hash map of the last sync holds and the new build lacks *)
PreviouslySynced == DOMAIN pushStart.meta.remote_file_hashes
DroppedPaths == {p \in PreviouslySynced : p \notin DOMAIN px.local_hashes}
UntouchedPaths == DOMAIN px.base_tree_sha \ (Range(px.changed_paths) \cup Range(px.deleted_paths))

(* what push() itself sends, creates and records for a deletion *)
C38_DeletedFromCommit ==
    PushVerified =>
        /\ Range(px.deleted_paths) = DroppedPaths
        /\ \A p \in DroppedPaths :
              /\ p \notin DOMAIN px.new_commit_sha.tree
              /\ p \notin DOMAIN store.meta.remote_file_hashes
              /\ p \notin DOMAIN store.metaDisk[1].remote_file_hashes
        /\ \A p \in UntouchedPaths :
              /\ p \in DOMAIN px.new_commit_sha.tree
              /\ px.new_commit_sha.tree[p] = px.base_tree_sha[p]

C38_DeletedYetOnBranch ==
    /\ PushVerified
    /\ ExperiencePath("exp_a") \in DroppedPaths
    /\ ExperiencePath("exp_a") \notin DOMAIN px.new_commit_sha.tree
    /\ ExperiencePath("exp_a") \in DOMAIN remote.head.tree
    /\ remote.head = SyncedCommit

----------------------------------------------------------------------------
(* The dirty flag and the file                                             *)

(* C36: whenever the store is loaded and dirty is false, the document in   *)
(* memory is the document of the file, also after a call that raised.      *)
C36_CleanMeansOnDisk ==
    (is_loaded(store) /\ ~store.dirty) => store.corpus = store.disk

(* the same, for the states a call that did not raise has led to from a    *)
(* state where it held                                                     *)
C36_CleanMeansOnDiskUnlessRaised ==
    (/\ is_loaded(store) /\ ~store.dirty /\ ~stx.raised
     /\ (is_loaded(stx.before) /\ ~stx.before.dirty) => stx.before.corpus = stx.before.disk)
        => store.corpus = store.disk

(* load() raised on a file the schema rejects, after it had assigned an id *)
C36_LoadRaisedHalfway ==
    /\ stx.op = "load" /\ stx.raised /\ ~is_loaded(stx.before)
    /\ is_loaded(store) /\ ~store.dirty
    /\ store.corpus # store.disk
(* replace_corpus raised on a document the schema rejects *)
C36_ReplaceRaisedHalfway ==
    /\ stx.op = "replace_corpus" /\ stx.raised
    /\ is_loaded(stx.before) /\ ~stx.before.dirty /\ stx.before.corpus = stx.before.disk
    /\ ~store.dirty /\ store.corpus = Some(InvalidCorpus) /\ store.disk = stx.before.disk
(* a mutator changed the document in place and raised *)
C36_MutatorRaisedHalfway ==
    /\ stx.op = "update" /\ stx.raised /\ stx.arg = <<"edit_then_raise">>
    /\ is_loaded(stx.before) /\ ~stx.before.dirty /\ stx.before.corpus = stx.before.disk
    /\ ~store.dirty /\ store.corpus # store.disk

----------------------------------------------------------------------------
(* A push() after a push() that did not persist                            *)

(* this step is a second push() called on the result of one that saved the *)
(* document and returned persisted = false, and it returns at once         *)
SecondPushReturns ==
    /\ pc = "returned" /\ result.local_saved /\ ~result.persisted
    /\ nPushes' = nPushes + 1
    /\ pc' = "returned"

(* C34: a push() that follows, with no edit in between, a push() that      *)
(* returned persisted = false after the local save returns persisted =     *)
(* true only if it wrote to the remote and verified what it wrote.         *)
C34_Step ==
    SecondPushReturns =>
        (result'.persisted => result'.remote_written /\ px'.verification.ok)
C34_PersistedOnlyAfterRemoteWrite == [][C34_Step]_vars

(* the first push() gave up with the edit saved and unpublished; the       *)
(* second, called at once, answered not_dirty, persisted                   *)
C34_SecondPushNotDirty ==
    /\ nPushes = 2 /\ pc = "returned"
    /\ result.reason = "not_dirty" /\ result.persisted /\ ~result.remote_written
    /\ calls = NoCalls
    /\ remote.head = SyncedCommit
    /\ store.corpus # None /\ ~store.dirty
    /\ SectionDocuments(store.corpus[1]) # SectionDocuments(InitialCorpus)

----------------------------------------------------------------------------
(* bootstrap_memory_repo                                                   *)

(* of the last bootstrap call *)
BootCalled == boot.n > 0
BootCreated == BootCalled /\ Count(boot.made, "create") > 0
BootFirst404 == _status_code(boot.first) = Some(404)
BootMetAttempt == boot.shared /\ boot.met = Some(TRUE)
BootCreateAccepted == BootCreated /\ ~CreateRejected(_status_code(boot.create_response))

(* C32: a bootstrap call calls create_memory_repo (once, after its first   *)
(* get) exactly when that get answered 404 and the turn_state it was given *)
(* (if any) had no create attempt recorded; the calls given the turn_state *)
(* of the turn call create at most once between them; a call that meets a  *)
(* 404 and a recorded attempt raises having called get only; a call whose  *)
(* create was not answered with a status of 400 or more calls get again,   *)
(* returns the sequence get, create, get_confirm, and ok exactly when that *)
(* second get is not a 404; a call whose create was rejected returns       *)
(* ok false without a second get.                                          *)
C32_CreateAtMostOncePerTurn ==
    /\ boot.creates <= 1
    /\ BootCalled =>
          /\ Count(boot.made, "create") <= 1
          /\ boot.made[1] = "get"
          /\ BootCreated <=> (BootFirst404 /\ ~BootMetAttempt)
          /\ (BootFirst404 /\ BootMetAttempt)
                => /\ boot.raised /\ boot.made = <<"get">>
                   /\ boot.turn_state = Some(TRUE)
          /\ boot.raised => (BootFirst404 /\ BootMetAttempt)
          /\ (BootCreated /\ boot.shared) => boot.turn_state = Some(TRUE)
          /\ BootCreateAccepted
                => /\ boot.made = <<"get", "create", "get">>
                   /\ boot.ret.sequence = <<"get", "create", "get_confirm">>
                   /\ boot.ret.created
                   /\ boot.ret.ok <=> (_status_code(boot.confirmed) # Some(404))
          /\ (BootCreated /\ ~BootCreateAccepted)
                => /\ boot.made = <<"get", "create">>
                   /\ ~boot.ret.ok /\ ~boot.ret.created
                   /\ boot.ret.reason = "create_failed"

(* the second call of a turn met a 404 again after the first had created   *)
(* the repository, and raised without calling create                       *)
C32_SecondCreateRefused ==
    /\ boot.n >= 2 /\ boot.creates = 1
    /\ boot.shared /\ BootFirst404 /\ boot.met = Some(TRUE)
    /\ boot.raised /\ boot.made = <<"get">>
(* a create was answered without a status and the confirming get with 404 *)
C32_ConfirmFailed ==
    /\ BootCreateAccepted
    /\ _status_code(boot.create_response) = None
    /\ _status_code(boot.confirmed) = Some(404)
    /\ ~boot.ret.ok /\ boot.ret.reason = "confirm_failed"

====
